---- MODULE Spec2Model ----
(***************************************************************************)
(* A model of repka's AsyncBaseRepo (src/repka/repositories/base.py), its  *)
(* query objects (queries.py) and the relational store behind its query    *)
(* executor.  One repository is bound to one table with the columns        *)
(*     id, price, a, seq_field                                             *)
(* where price is a plain required field (Transaction.price), and a and    *)
(* seq_field are the ignore-default fields of DefaultFieldsRepo: a has a   *)
(* client-side column default, seq_field a server-side sequence default.   *)
(*                                                                         *)
(* Spec            inserts, get_or_create, delete and the caller's         *)
(*                 transaction scope                                       *)
(* SpecUpdate      the update methods and get_all on a seeded table        *)
(* SpecExecutor    the methods of DatabasesQueryExecutor                   *)
(* SpecConcurrent  two cooperative callers of get_or_create                *)
(* SpecUpsert      two cooperative callers of update_or_insert_first and   *)
(*                 update_or_insert_many_by_field                          *)
(* SpecIterate     insert_many_aiter and the consumer of its iterator      *)
(* SpecFake        the in-memory FakeRepo (fake.py)                        *)
(***************************************************************************)
EXTENDS Integers, Sequences, FiniteSets, TLC

\* ---------------------------------------------------------------- bounds
\* The identifier sequence never hands out more than MaxId values.
MaxId == 2
\* Longest batch handed to insert_many.
MaxBatch == 2
\* The identifier sequence of the runs that update and query the table never
\* hands out more than MaxRows values.
MaxRows == 3

\* ------------------------------------------------------- values and types
\* Python's None (a null identifier, a NULL column, the match-all sentinel).
None == -1
\* A value the store cannot coerce to an integer column (the "ass" of
\* UnionModel(int_or_str="ass") in the tests).
NotAnInt == -100

\* Columns of the table other than the identifier.
Fields == {"price", "a", "seq_field"}

\* DefaultFieldsRepo.ignore_default (without the column b).
ignore_default == <<"a", "seq_field">>

\* Declared default of a model field: DefaultFieldsModel.a = 0,
\* DefaultFieldsModel.seq_field = 0; price is required and has no default,
\* so pydantic records None for it.
FieldDefault(f) == IF f = "price" THEN None ELSE 0

\* sa.Column("a", sa.Integer, default=5): the default the query builder fills
\* in when the column is left out of an INSERT.
ColumnDefaultA == 5

\* Columns whose col.server_default is not None.
ServerDefaultColumns == {"seq_field"}

\* Values the caller may give the fields of a record.
PriceValues == {100}
AValues == {0, 60}
SeqFieldValues == {0, 70, 90}

Range(s) == {s[i] : i \in 1..Len(s)}

\* ------------------------------------------------------------ utils.py
\* model_to_primitive: the field -> value mapping, without "id" when asked.
\* (The JSON round trip leaves integers as they are.)
model_to_primitive(model, without_id) ==
    [f \in (IF without_id THEN Fields ELSE Fields \cup {"id"}) |-> model[f]]

is_field_equal_to_default(entity, field_name) ==
    entity[field_name] = FieldDefault(field_name)

\* mixed_zip: pairs first[i] with second[i] up to the shorter of the two.
mixed_zip(first, second) ==
    [i \in 1..(IF Len(first) < Len(second) THEN Len(first) ELSE Len(second))
        |-> <<first[i], second[i]>>]

\* ------------------------------------------------------ AsyncBaseRepo
serialize_WithId(entity) == model_to_primitive(entity, FALSE)

\* AsyncBaseRepo.serialize: model_to_primitive(entity, without_id=True)
serialize(entity) == model_to_primitive(entity, TRUE)

\* deserialize(**kwargs): the record type's constructor.  price is required
\* (Transaction.price); id defaults to None, a and seq_field to their
\* declared defaults.
Constructible(kwargs) == "price" \in DOMAIN kwargs

deserialize(kwargs) ==
    [f \in Fields \cup {"id"} |->
        IF f \in DOMAIN kwargs THEN kwargs[f]
        ELSE IF f = "id" THEN None ELSE FieldDefault(f)]

\* ----------------------------------------------------------- InsertImpl
_get_ignored_fields_All(entity) == Range(ignore_default)

_get_ignored_fields(entity) ==
    {f \in Range(ignore_default) : is_field_equal_to_default(entity, f)}

_serialize_for_insertion_KeepAll(entity) ==
    [key \in Fields |-> entity[key]]

_serialize_for_insertion(entity) ==
    [key \in (DOMAIN serialize(entity)) \ _get_ignored_fields(entity)
        |-> serialize(entity)[key]]

insert_returning_columns_AllColumns == {"id"} \cup Fields

\* InsertImpl.insert_returning_columns: table.c.id and the column of every
\* name in ignore_default, whatever the record is.
insert_returning_columns == {"id"} \cup Range(ignore_default)

_set_ignored_fields_KeepId(entity, row) ==
    [f \in DOMAIN entity |->
        IF f \in {g \in Range(ignore_default) : entity[g] = FieldDefault(g)}
        THEN row[f] ELSE entity[f]]

\* entity.id = row["id"], then every field still equal to its default takes
\* the value of the returned row.
_set_ignored_fields(entity, row) ==
    LET withId == [entity EXCEPT !.id = row.id]
        ignored == _get_ignored_fields(withId)
    IN  [f \in DOMAIN withId |->
            IF f \in ignored THEN row[f] ELSE withId[f]]

\* ------------------------------------------------------------ queries.py
\* A filter is an equality test on one column; the match-all sentinel of
\* delete is Python's None.
NoneFilter == [col |-> "None", val |-> None]

InFilter_Nothing(column, values) == [col |-> column, in |-> {}]

\* column.in_(values): the column holds one of the values.
InFilter(column, values) == [col |-> column, in |-> values]

\* A row satisfies an equality filter when the column holds the value, and an
\* IN filter when it holds one of the values.  A None that reaches a WHERE
\* clause is rendered as NULL, which no row satisfies.
Matches(row, filter) ==
    IF filter = NoneFilter THEN FALSE
    ELSE IF "in" \in DOMAIN filter THEN row[filter.col] \in filter.in
    ELSE row[filter.col] = filter.val

\* SelectQuery.apply_filters: one WHERE clause per filter, i.e. their AND.
apply_filters(table_rows, filters) ==
    SelectSeq(table_rows,
              LAMBDA r : \A i \in 1..Len(filters) : Matches(r, filters[i]))

\* An order is a column, ascending, or column.desc().
\* Comes(r1, r2, orders): ORDER BY puts r1 strictly before r2, i.e. the two
\* rows agree on the keys before some key and that key decides.
Comes(r1, r2, orders) ==
    \E k \in 1..Len(orders) :
        /\ \A j \in 1..(k - 1) : r1[orders[j].col] = r2[orders[j].col]
        /\ IF orders[k].desc
           THEN r1[orders[k].col] > r2[orders[k].col]
           ELSE r1[orders[k].col] < r2[orders[k].col]

Arrangements(found) ==
    {[i \in 1..Len(found) |-> found[p[i]]] : p \in Permutations(1..Len(found))}

apply_orders_FirstKeyOnly(found, orders) ==
    IF Len(orders) = 0 THEN {found}
    ELSE {s \in Arrangements(found) :
            \A i, j \in 1..Len(s) : i < j => ~Comes(s[j], s[i], <<orders[1]>>)}

\* SelectQuery.apply_orders: query.order_by(*orders).  The results the store
\* may give: without orders the rows as stored, with orders any arrangement
\* in which no row stands after a row it comes before (rows equal on every
\* key stand in an order the store chooses).
apply_orders(found, orders) ==
    IF Len(orders) = 0 THEN {found}
    ELSE {s \in Arrangements(found) :
            \A i, j \in 1..Len(s) : i < j => ~Comes(s[j], s[i], orders)}

SelectQuery(filters, orders) ==
    [kind |-> "select", filters |-> filters, orders |-> orders]

InsertQuery(insert_values, returning_columns) ==
    [kind |-> "insert", values |-> insert_values, returning |-> returning_columns]

InsertManyQuery(insert_values, returning_columns) ==
    [kind |-> "insert_many", values |-> insert_values,
     returning |-> returning_columns]

DeleteQuery_NoGuard(filters) ==
    [kind |-> "delete",
     filters |-> IF Len(filters) > 0 /\ filters[1] = [col |-> "None", val |-> None]
                 THEN <<>> ELSE filters]

DeleteQuery_KeepNone(filters) ==
    IF Len(filters) = 0
    THEN [kind |-> "ValueError", filters |-> <<>>]
    ELSE [kind |-> "delete", filters |-> filters]

UpdateQuery_NoFilters(update_values, filters) ==
    [kind |-> "update", values |-> update_values, filters |-> <<>>]

\* UpdateQuery.__call__: UPDATE ... SET update_values WHERE every filter.
UpdateQuery(update_values, filters) ==
    [kind |-> "update", values |-> update_values, filters |-> filters]

\* UpdateQuery.by_id
UpdateQuery_by_id(id_, update_values) ==
    UpdateQuery(update_values, <<[col |-> "id", val |-> id_]>>)

DeleteQuery_KeepRest(filters) ==
    IF Len(filters) = 0
    THEN [kind |-> "ValueError", filters |-> <<>>]
    ELSE [kind |-> "delete",
          filters |-> IF filters[1] = [col |-> "None", val |-> None]
                      THEN Tail(filters) ELSE filters]

\* DeleteQuery.__call__: no filters is an error; a leading None drops every
\* filter; otherwise the filters are applied as given.
DeleteQuery(filters) ==
    IF Len(filters) = 0
    THEN [kind |-> "ValueError", filters |-> <<>>]
    ELSE [kind |-> "delete",
          filters |-> IF filters[1] = NoneFilter THEN <<>> ELSE filters]

\* ------------------------------------------------- the query executor
\* The store as the connection sees it: the rows of the table in storage
\* order and the last values of the two sequences (the identifier's serial
\* and default_fields_seq).
Store(r, i, s) == [rows |-> r, id_seq |-> i, seq_val |-> s]

\* A type-coercion failure: some value sent for an integer column is not one.
Coercible(values) == \A k \in DOMAIN values : values[k] # NotAnInt

\* The row an INSERT stores for one VALUES mapping: a column left out takes
\* its default (NULL for price, 5 for a, nextval for seq_field).
StoredRow(values, idv, seqv) ==
    [id |-> idv,
     price |-> IF "price" \in DOMAIN values THEN values["price"] ELSE None,
     a |-> IF "a" \in DOMAIN values THEN values["a"] ELSE ColumnDefaultA,
     seq_field |-> IF "seq_field" \in DOMAIN values
                   THEN values["seq_field"] ELSE seqv]

Returning(row, columns) == [c \in columns |-> row[c]]

\* AsyncQueryExecutor.insert: run the INSERT, return its RETURNING row.
ExecInsert(db, query) ==
    IF ~Coercible(query.values)
    THEN [err |-> "DataError", db |-> db, ret |-> <<>>]
    ELSE LET usesSeq == "seq_field" \notin DOMAIN query.values
             row == StoredRow(query.values, db.id_seq + 1, db.seq_val + 1)
         IN  [err |-> "none",
              db |-> Store(Append(db.rows, row), db.id_seq + 1,
                           IF usesSeq THEN db.seq_val + 1 ELSE db.seq_val),
              ret |-> <<Returning(row, query.returning)>>]

\* Columns with a client-side default (sa.Column(..., default=...)): the
\* query builder adds them to every VALUES row of a multi-row INSERT.
ClientDefaultColumns == {"a"}

\* The VALUES rows of a multi-row INSERT as the query builder renders them:
\* the first mapping (plus the client-default columns) fixes the column list;
\* a later mapping that lacks one of these columns takes the client-side
\* default, and cannot be rendered when the column has none; a key outside
\* the column list is dropped.
MultiColumns(values) == (DOMAIN values[1]) \cup ClientDefaultColumns

Renderable(values) ==
    \A i \in 1..Len(values) : \A c \in MultiColumns(values) :
        c \in DOMAIN values[i] \/ c \in ClientDefaultColumns

RenderedValues(values) ==
    [i \in 1..Len(values) |->
        [c \in MultiColumns(values) |->
            IF c \in DOMAIN values[i] THEN values[i][c] ELSE ColumnDefaultA]]

\* The rows a multi-row INSERT stores: identifiers, and sequence values
\* where seq_field is left to its server default, are drawn in VALUES order.
StoredRows(rendered, db) ==
    [i \in 1..Len(rendered) |->
        StoredRow(rendered[i], db.id_seq + i, db.seq_val + i)]

ExecInsertMany_Partial(db, query) ==
    IF ~Renderable(query.values)
    THEN [err |-> "CompileError", db |-> db, ret |-> <<>>]
    ELSE LET rendered == RenderedValues(query.values)
             n == Len(rendered)
             usesSeq == "seq_field" \notin MultiColumns(query.values)
             stored == StoredRows(rendered, db)
             good == CHOOSE k \in 0..n :
                        /\ \A i \in 1..k : Coercible(rendered[i])
                        /\ k < n => ~Coercible(rendered[k + 1])
         IN  [err |-> IF good = n THEN "none" ELSE "DataError",
              db |-> Store(db.rows \o SubSeq(stored, 1, good), db.id_seq + good,
                           IF usesSeq THEN db.seq_val + good ELSE db.seq_val),
              ret |-> IF good = n
                      THEN [i \in 1..n |-> Returning(stored[i], query.returning)]
                      ELSE <<>>]

\* AsyncQueryExecutor.insert_many: one multi-row INSERT, all rows or none,
\* returning one row per VALUES row in the same order.
ExecInsertMany(db, query) ==
    IF ~Renderable(query.values)
    THEN [err |-> "CompileError", db |-> db, ret |-> <<>>]
    ELSE LET rendered == RenderedValues(query.values)
             n == Len(rendered)
             usesSeq == "seq_field" \notin MultiColumns(query.values)
             stored == StoredRows(rendered, db)
         IN  IF \E i \in 1..n : ~Coercible(rendered[i])
             THEN [err |-> "DataError", db |-> db, ret |-> <<>>]
             ELSE [err |-> "none",
                   db |-> Store(db.rows \o stored, db.id_seq + n,
                                IF usesSeq THEN db.seq_val + n ELSE db.seq_val),
                   ret |-> [i \in 1..n |-> Returning(stored[i], query.returning)]]

\* AsyncQueryExecutor.fetch_all / fetch_one on a SELECT without ORDER BY.
ExecFetchAll(db, query) == apply_filters(db.rows, query.filters)

\* AsyncQueryExecutor.fetch_all on a SELECT: the results the store may give.
ExecFetchAllOrdered(db, query) ==
    apply_orders(apply_filters(db.rows, query.filters), query.orders)

ExecFetchOne(db, query) ==
    LET found == ExecFetchAll(db, query)
    IN  IF Len(found) = 0 THEN <<>> ELSE <<found[1]>>

\* AsyncQueryExecutor.delete on a DELETE: the rows matching no filter stay.
ExecDelete(db, query) ==
    LET gone == Range(apply_filters(db.rows, query.filters))
    IN  [db EXCEPT !.rows = SelectSeq(db.rows, LAMBDA r : r \notin gone)]

\* AsyncQueryExecutor.update on an UPDATE: the rows matching every filter take
\* the values, the others stay; a value the column cannot hold fails the
\* statement whatever the rows are.
ExecUpdate(db, query) ==
    IF ~Coercible(query.values)
    THEN [err |-> "DataError", db |-> db]
    ELSE [err |-> "none",
          db |-> [db EXCEPT !.rows =
                    [i \in 1..Len(db.rows) |->
                        IF \A k \in 1..Len(query.filters) :
                              Matches(db.rows[i], query.filters[k])
                        THEN [c \in DOMAIN db.rows[i] |->
                                 IF c \in DOMAIN query.values
                                 THEN query.values[c] ELSE db.rows[i][c]]
                        ELSE db.rows[i]]]]

\* ------------------------------------------- DatabasesQueryExecutor
_check_sa_params_Off(sa_params) == TRUE

\* _check_sa_params: passes when the keyword parameters are empty, raises
\* ValueError otherwise.
_check_sa_params(sa_params) == DOMAIN sa_params = {}

\* A method of the executor: _check_sa_params first, then the call on the
\* connection, whose outcome is result.
Checked(sa_params, db, result) ==
    IF ~_check_sa_params(sa_params)
    THEN [err |-> "ValueError", db |-> db, ret |-> <<>>, stmts |-> <<>>]
    ELSE result

\* connection.fetch_val: the first column of the first row, or None.
ExecFetchVal(db, query) ==
    LET found == ExecFetchAll(db, query)
    IN  IF Len(found) = 0 THEN <<None>> ELSE <<found[1].id>>

\* The methods of DatabasesQueryExecutor, by name.  ret is what the method
\* returns and stmts the statements that reached the connection.
DatabasesQueryExecutor(method, db, query, sa_params) ==
    CASE method = "fetch_one" ->
            Checked(sa_params, db,
                    [err |-> "none", db |-> db, ret |-> ExecFetchOne(db, query),
                     stmts |-> <<query>>])
      [] method = "fetch_all" ->
            Checked(sa_params, db,
                    [err |-> "none", db |-> db, ret |-> ExecFetchAll(db, query),
                     stmts |-> <<query>>])
      [] method = "fetch_val" ->
            Checked(sa_params, db,
                    [err |-> "none", db |-> db, ret |-> ExecFetchVal(db, query),
                     stmts |-> <<query>>])
      [] method = "insert" ->
            Checked(sa_params, db,
                    LET res == ExecInsert(db, query)
                    IN  [err |-> res.err, db |-> res.db, ret |-> res.ret,
                         stmts |-> <<query>>])
      [] method = "insert_many" ->
            Checked(sa_params, db,
                    LET res == ExecInsertMany(db, query)
                    IN  [err |-> res.err, db |-> res.db, ret |-> res.ret,
                         stmts |-> <<query>>])
      [] method = "update" ->
            Checked(sa_params, db,
                    LET res == ExecUpdate(db, query)
                    IN  [err |-> res.err, db |-> res.db, ret |-> <<>>,
                         stmts |-> <<query>>])
      [] method = "delete" ->
            Checked(sa_params, db,
                    [err |-> "none", db |-> ExecDelete(db, query), ret |-> <<>>,
                     stmts |-> <<query>>])

\* ------------------------------------------------- repository operations
\* The outcome of a call: the error raised ("none" when it returned), the
\* store afterwards, the records as the caller holds them afterwards, the
\* rows the executor returned and the statements that reached the executor.
Outcome(err, db, out, ret, stmts) ==
    [err |-> err, db |-> db, out |-> out, ret |-> ret, stmts |-> stmts]

\* The statements of a transaction scope.
Begin == [kind |-> "begin"]
Commit == [kind |-> "commit"]
Rollback == [kind |-> "rollback"]

\* InsertImpl.insert
InsertImpl_insert(db, entity) ==
    LET query == InsertQuery(_serialize_for_insertion(entity),
                             insert_returning_columns)
        res == ExecInsert(db, query)
    IN  IF res.err # "none"
        THEN Outcome(res.err, res.db, <<entity>>, <<>>, <<query>>)
        ELSE Outcome("none", res.db,
                     <<_set_ignored_fields(entity, res.ret[1])>>,
                     res.ret, <<query>>)

_check_server_defaults_Off(entities) == TRUE

_check_server_defaults_EveryIgnored(entities) ==
    \A f \in Range(ignore_default) :
        \A i \in 1..Len(entities) :
            is_field_equal_to_default(entities[i], f)
                = is_field_equal_to_default(entities[1], f)

\* InsertManyImpl._check_server_defaults: for every ignore-default column
\* with a server default, all records agree with the first on "equal to the
\* default".
_check_server_defaults(entities) ==
    \A f \in {c \in ServerDefaultColumns : c \in Range(ignore_default)} :
        \A i \in 1..Len(entities) :
            is_field_equal_to_default(entities[i], f)
                = is_field_equal_to_default(entities[1], f)

_updated_entities_Reversed(entities, ret) ==
    [i \in 1..Len(entities) |->
        IF i <= Len(ret)
        THEN [entities[i] EXCEPT !.id = ret[Len(ret) + 1 - i].id]
        ELSE entities[i]]

\* InsertManyImpl._updated_entities_aiter, consumed to its end: the records
\* paired with a returned row take the row's values, the others stay.
_updated_entities(entities, ret) ==
    LET pairs == mixed_zip(entities, ret)
    IN  [i \in 1..Len(entities) |->
            IF i <= Len(pairs)
            THEN _set_ignored_fields(pairs[i][1], pairs[i][2])
            ELSE entities[i]]

InsertManyImpl_insert_many_EmptyInScope(db, entities) ==
    IF Len(entities) = 0
    THEN Outcome("none", db, <<>>, <<>>, <<Begin, Commit>>)
    ELSE IF ~_check_server_defaults(entities)
    THEN Outcome("ValueError", db, entities, <<>>, <<>>)
    ELSE LET query == InsertManyQuery(
                          [i \in 1..Len(entities) |->
                              _serialize_for_insertion(entities[i])],
                          insert_returning_columns)
             res == ExecInsertMany(db, query)
         IN  IF res.err # "none"
             THEN Outcome(res.err, res.db, entities, <<>>, <<query>>)
             ELSE Outcome("none", res.db, _updated_entities(entities, res.ret),
                          res.ret, <<query>>)

\* InsertManyImpl.insert_many
InsertManyImpl_insert_many(db, entities) ==
    IF Len(entities) = 0
    THEN Outcome("none", db, <<>>, <<>>, <<>>)
    ELSE IF ~_check_server_defaults(entities)
    THEN Outcome("ValueError", db, entities, <<>>, <<>>)
    ELSE LET query == InsertManyQuery(
                          [i \in 1..Len(entities) |->
                              _serialize_for_insertion(entities[i])],
                          insert_returning_columns)
             res == ExecInsertMany(db, query)
         IN  IF res.err # "none"
             THEN Outcome(res.err, res.db, entities, <<>>, <<query>>)
             ELSE Outcome("none", res.db, _updated_entities(entities, res.ret),
                          res.ret, <<query>>)

\* AsyncBaseRepo.first: Optional[entity] as a sequence of length 0 or 1.
first(db, filters) ==
    LET row == ExecFetchOne(db, SelectQuery(filters, <<>>))
    IN  IF Len(row) = 0 THEN <<>> ELSE <<deserialize(row[1])>>

Found_Never(entity) == FALSE

\* An Optional[entity] is truthy when it holds a record.
Found(entity) == Len(entity) > 0

get_by_id(db, entity_id) == first(db, <<[col |-> "id", val |-> entity_id]>>)

get_all(db, filters) ==
    LET found == ExecFetchAll(db, SelectQuery(filters, <<>>))
    IN  [i \in 1..Len(found) |-> deserialize(found[i])]

\* AsyncBaseRepo.get_or_create from the point where first() has returned
\* entity: the matching record and False, or the record built from defaults,
\* inserted, and True.
get_or_create_after_first(db, entity, filters, defaults) ==
    LET select == <<SelectQuery(filters, <<>>)>>
    IN  IF Found(entity)
        THEN [res |-> Outcome("none", db, entity, <<>>, select),
              created |-> FALSE]
        ELSE IF ~Constructible(defaults)
        THEN [res |-> Outcome("ValidationError", db, <<>>, <<>>, select),
              created |-> FALSE]
        ELSE LET ins == InsertImpl_insert(db, deserialize(defaults))
             IN  [res |-> [ins EXCEPT !.stmts = select \o ins.stmts],
                  created |-> ins.err = "none"]

\* AsyncBaseRepo.get_or_create, run without another caller in between.
get_or_create(db, filters, defaults) ==
    get_or_create_after_first(db, first(db, filters), filters, defaults)

\* AsyncBaseRepo.delete: build the DELETE, then hand it to the executor.
delete(db, filters) ==
    LET query == DeleteQuery(filters)
    IN  IF query.kind = "ValueError"
        THEN Outcome("ValueError", db, <<>>, <<>>, <<>>)
        ELSE Outcome("none", ExecDelete(db, query), <<>>, <<>>, <<query>>)

\* AsyncBaseRepo.get_all(filters, orders): the lists the call may return.
get_all_results(db, filters, orders) ==
    {[i \in 1..Len(found) |-> deserialize(found[i])] :
        found \in ExecFetchAllOrdered(db, SelectQuery(filters, orders))}

HasId_Always(entity) == TRUE

\* assert entity.id: the identifier is neither None nor 0.
HasId(entity) == entity.id # None /\ entity.id # 0

\* AsyncBaseRepo.update: every serialized field goes to the row with the
\* record's identifier.
update(db, entity) ==
    IF ~HasId(entity)
    THEN Outcome("AssertionError", db, <<entity>>, <<>>, <<>>)
    ELSE LET query == UpdateQuery_by_id(entity.id, serialize(entity))
             res == ExecUpdate(db, query)
         IN  Outcome(res.err, res.db, <<entity>>, <<>>, <<query>>)

update_partial_Full(db, entity, updated_values) ==
    LET changed == [f \in DOMAIN entity |->
                       IF f \in DOMAIN updated_values
                       THEN updated_values[f] ELSE entity[f]]
    IN  [update(db, changed) EXCEPT !.out = <<changed>>]

update_partial_Restores(db, entity, updated_values) ==
    IF ~HasId(entity)
    THEN Outcome("AssertionError", db, <<entity>>, <<>>, <<>>)
    ELSE LET changed == [f \in DOMAIN entity |->
                            IF f \in DOMAIN updated_values
                            THEN updated_values[f] ELSE entity[f]]
             query == UpdateQuery_by_id(
                          entity.id,
                          [key \in DOMAIN updated_values \ {"id"} |->
                              updated_values[key]])
             res == ExecUpdate(db, query)
         IN  IF "id" \in DOMAIN updated_values
             THEN Outcome("KeyError", db, <<entity>>, <<>>, <<>>)
             ELSE Outcome(res.err, res.db,
                          IF res.err = "none" THEN <<changed>> ELSE <<entity>>,
                          <<>>, <<query>>)

\* AsyncBaseRepo.update_partial: the values are set on the record, then only
\* the named fields go to the row with the record's identifier.  A name that
\* serialize(entity) does not carry raises KeyError before any statement.
update_partial(db, entity, updated_values) ==
    IF ~HasId(entity)
    THEN Outcome("AssertionError", db, <<entity>>, <<>>, <<>>)
    ELSE LET changed == [f \in DOMAIN entity |->
                            IF f \in DOMAIN updated_values
                            THEN updated_values[f] ELSE entity[f]]
             serialized_entity == serialize(changed)
         IN  IF ~(DOMAIN updated_values \subseteq DOMAIN serialized_entity)
             THEN Outcome("KeyError", db, <<changed>>, <<>>, <<>>)
             ELSE LET serialized_values == [key \in DOMAIN updated_values |->
                                               serialized_entity[key]]
                      query == UpdateQuery_by_id(changed.id, serialized_values)
                      res == ExecUpdate(db, query)
                  IN  Outcome(res.err, res.db, <<changed>>, <<>>, <<query>>)

execute_in_transaction_NoRollback(db, body) ==
    [body EXCEPT !.stmts = <<Begin>> \o body.stmts \o <<Commit>>]

\* async with self.execute_in_transaction(): body, where body is the outcome
\* of the statements run under the scope on the store db.  The scope commits
\* when the body returns and rolls the rows back to those of db when it
\* raises (the sequences keep their values).
execute_in_transaction(db, body) ==
    IF body.err = "none"
    THEN [body EXCEPT !.stmts = <<Begin>> \o body.stmts \o <<Commit>>]
    ELSE [body EXCEPT !.db = [body.db EXCEPT !.rows = db.rows],
                      !.stmts = <<Begin>> \o body.stmts \o <<Rollback>>]

\* [await self.update(entity) for entity in entities], up to the n-th record:
\* one update after the other, stopping at the first that raises.
RECURSIVE update_each(_, _, _)
update_each(db, entities, n) ==
    IF n = 0
    THEN Outcome("none", db, <<>>, <<>>, <<>>)
    ELSE LET prev == update_each(db, entities, n - 1)
             this == update(prev.db, entities[n])
         IN  IF prev.err # "none"
             THEN prev
             ELSE Outcome(this.err, this.db, prev.out \o this.out, <<>>,
                          prev.stmts \o this.stmts)

update_many_NoScope(db, entities) ==
    IF Len(entities) = 0
    THEN Outcome("none", db, entities, <<>>, <<>>)
    ELSE LET body == update_each(db, entities, Len(entities))
         IN  Outcome(body.err, body.db, entities, <<>>,
                     <<Begin>> \o body.stmts \o <<Commit>>)

\* AsyncBaseRepo.update_many: nothing for an empty list, otherwise the
\* updates in input order under one transaction scope.
update_many(db, entities) ==
    IF Len(entities) = 0
    THEN Outcome("none", db, entities, <<>>, <<>>)
    ELSE LET body == update_each(db, entities, Len(entities))
         IN  execute_in_transaction(db, [body EXCEPT !.out = entities])

\* AsyncBaseRepo.update_values
update_values(db, values, filters) ==
    LET query == UpdateQuery(values, filters)
        res == ExecUpdate(db, query)
    IN  Outcome(res.err, res.db, <<>>, <<>>, <<query>>)

\* AsyncBaseRepo.update_or_insert_first from the point where get_all has
\* returned entity_with_field: under one transaction scope, the record takes
\* the identifier of the first row found and is updated, or is inserted when
\* none was found.
update_or_insert_first_after_lookup(db, entity, field, entity_with_field) ==
    LET body == IF Len(entity_with_field) > 0
                THEN update(db, [entity EXCEPT !.id = entity_with_field[1].id])
                ELSE InsertImpl_insert(db, entity)
    IN  execute_in_transaction(db, body)

\* AsyncBaseRepo.update_or_insert_first
update_or_insert_first(db, entity, field) ==
    LET lookup == SelectQuery(<<[col |-> field, val |-> entity[field]]>>, <<>>)
        scope == update_or_insert_first_after_lookup(
                     db, entity, field, get_all(db, lookup.filters))
    IN  IF entity[field] = NotAnInt
        THEN Outcome("DataError", db, <<entity>>, <<>>, <<lookup>>)
        ELSE [scope EXCEPT !.stmts = <<lookup>> \o scope.stmts]

\* AsyncBaseRepo.update_or_insert_many_by_field from the point where get_all
\* has returned entities_with_field: under one transaction scope, the records
\* whose value no found row holds are inserted with one insert_many and the
\* others take the identifier of the (last) found row with their value and
\* are updated with update_many.
update_or_insert_many_after_lookup(db, entities, field, entities_with_field) ==
    LET Known(v) ==
            \E i \in 1..Len(entities_with_field) :
                entities_with_field[i][field] = v
        field_entities(v) ==
            entities_with_field[
                CHOOSE i \in 1..Len(entities_with_field) :
                    /\ entities_with_field[i][field] = v
                    /\ \A j \in (i + 1)..Len(entities_with_field) :
                          entities_with_field[j][field] # v]
        entities_to_insert == SelectSeq(entities, LAMBDA e : ~Known(e[field]))
        entities_to_update == SelectSeq(entities, LAMBDA e : Known(e[field]))
        ins == InsertManyImpl_insert_many(db, entities_to_insert)
        with_ids == [i \in 1..Len(entities_to_update) |->
                        [entities_to_update[i] EXCEPT
                            !.id = field_entities(entities_to_update[i][field]).id]]
        upd == update_many(ins.db, with_ids)
        body == IF ins.err # "none"
                THEN [ins EXCEPT !.out = ins.out \o entities_to_update]
                ELSE Outcome(upd.err, upd.db, ins.out \o upd.out, ins.ret,
                             ins.stmts \o upd.stmts)
    IN  execute_in_transaction(db, body)

\* AsyncBaseRepo.update_or_insert_many_by_field: the rows holding one of the
\* records' field values are looked up; then the scope above.
update_or_insert_many_by_field(db, entities, field) ==
    LET values == [i \in 1..Len(entities) |-> entities[i][field]]
        lookup == SelectQuery(<<InFilter(field, Range(values))>>, <<>>)
        scope == update_or_insert_many_after_lookup(
                     db, entities, field, get_all(db, lookup.filters))
    IN  IF ~Coercible(values)
        THEN Outcome("DataError", db, entities, <<>>, <<lookup>>)
        ELSE [scope EXCEPT !.stmts = <<lookup>> \o scope.stmts]

\* --------------------------------------------------------------- fake.py
\* The record objects a caller of the fake repository holds.  The fake keeps
\* references: self.entities lists objects, and an object's id is shared by
\* every place that lists it.
FakeObjects == {"r1", "r2", "r3"}

\* FakeRepo.__init__: no entities, id_counter = 1.  id is the id attribute of
\* each object (None until set) and assigned lists, in order, the identifier
\* each insert handed out.
FakeRepo_init ==
    [entities |-> <<>>, id_counter |-> 1,
     id |-> [o \in FakeObjects |-> None], assigned |-> <<>>]

\* FakeRepo.insert: entity.id = self.id_counter; self.id_counter += 1;
\* self.entities.append(entity)
FakeRepo_insert(repo, entity) ==
    [repo EXCEPT !.id[entity] = repo.id_counter,
                 !.id_counter = repo.id_counter + 1,
                 !.entities = Append(repo.entities, entity),
                 !.assigned = Append(repo.assigned, repo.id_counter)]

\* FakeRepo.insert_many: [await self.insert(entity) for entity in entities]
RECURSIVE FakeRepo_insert_many(_, _)
FakeRepo_insert_many(repo, entities) ==
    IF Len(entities) = 0
    THEN repo
    ELSE FakeRepo_insert_many(FakeRepo_insert(repo, Head(entities)),
                              Tail(entities))

\* FakeRepo.delete_by_id: keep the entities whose id differs.
FakeRepo_delete_by_id(repo, entity_id) ==
    [repo EXCEPT !.entities =
        SelectSeq(repo.entities, LAMBDA o : repo.id[o] # entity_id)]

\* FakeRepo.delete_by_ids: keep the entities whose id is not listed.
FakeRepo_delete_by_ids(repo, entity_ids) ==
    [repo EXCEPT !.entities =
        SelectSeq(repo.entities, LAMBDA o : repo.id[o] \notin entity_ids)]

\* ------------------------------------------------------------- the state
VARIABLES
    rows,        \* the table's rows, in storage order
    id_seq,      \* last value of the identifier serial
    seq_val,     \* last value of default_fields_seq
    txOpen,      \* an execute_in_transaction() scope is open
    txSnapshot,  \* the rows when the open scope was entered
    txInserted,  \* identifiers of the rows inserted in the open scope
    txDeleted,   \* a DELETE was executed in the open scope
    pending,     \* an exception is propagating out of the open scope
    last,        \* the last repository call and its outcome
    callers,     \* the cooperative callers that are inside a repository call
    fake         \* a FakeRepo: its list, its id_counter and the records' ids

vars ==
    <<rows, id_seq, seq_val, txOpen, txSnapshot, txInserted, txDeleted, pending,
      last, callers, fake>>

Db == Store(rows, id_seq, seq_val)

\* The arguments a call can carry besides the operation's name.
NoParams ==
    [args |-> <<>>, filters |-> <<>>, defaults |-> <<>>, orders |-> <<>>,
     values |-> <<>>, field |-> "", method |-> "", query |-> <<>>,
     sa_params |-> <<>>]

CallWith(op, params, res, created) ==
    [op |-> op, args |-> params.args, filters |-> params.filters,
     defaults |-> params.defaults, orders |-> params.orders,
     values |-> params.values, field |-> params.field,
     method |-> params.method, query |-> params.query,
     sa_params |-> params.sa_params,
     err |-> res.err, out |-> res.out, ret |-> res.ret, stmts |-> res.stmts,
     before |-> rows, idBefore |-> id_seq, seqBefore |-> seq_val,
     created |-> created,
     inTx |-> txOpen, txStart |-> txSnapshot, txInserted |-> txInserted,
     txDeleted |-> txDeleted]

Call(op, args, filters, defaults, res, created) ==
    CallWith(op, [NoParams EXCEPT !.args = args, !.filters = filters,
                                  !.defaults = defaults], res, created)

NoCall ==
    [op |-> "none", args |-> <<>>, filters |-> <<>>, defaults |-> <<>>,
     orders |-> <<>>, values |-> <<>>, field |-> "", method |-> "",
     query |-> <<>>, sa_params |-> <<>>,
     err |-> "none", out |-> <<>>, ret |-> <<>>, stmts |-> <<>>,
     before |-> <<>>, idBefore |-> 0, seqBefore |-> 0, created |-> FALSE,
     inTx |-> FALSE, txStart |-> <<>>, txInserted |-> {},
     txDeleted |-> FALSE]

\* Cooperative callers (coroutines on one event loop) sharing the repository.
Callers == {1, 2}

\* A caller that is not inside a repository call.
NotCalling ==
    [pc |-> "idle", filters |-> <<>>, defaults |-> <<>>, entity |-> <<>>,
     err |-> "none", out |-> <<>>, created |-> FALSE]

\* Records the caller can build: no identifier yet, any field values, and one
\* record whose price the store cannot coerce.
Entities ==
    [id : {None}, price : PriceValues, a : AValues, seq_field : SeqFieldValues]
    \cup {[id |-> None, price |-> NotAnInt, a |-> 0, seq_field |-> 0]}

Init ==
    /\ rows = <<>>
    /\ id_seq = 0
    /\ seq_val = 0
    /\ txOpen = FALSE
    /\ txSnapshot = <<>>
    /\ txInserted = {}
    /\ txDeleted = FALSE
    /\ pending = FALSE
    /\ last = NoCall
    /\ callers = [c \in Callers |-> NotCalling]
    /\ fake = FakeRepo_init

\* The caller is between two calls: it has taken the outcome of the last one.
Idle == last = NoCall

\* What every repository call does with its outcome: the store takes the
\* outcome's state and an error raised under an open scope starts unwinding it.
FinishWith(op, params, res, created) ==
    /\ rows' = res.db.rows
    /\ id_seq' = res.db.id_seq
    /\ seq_val' = res.db.seq_val
    /\ pending' = (txOpen /\ res.err # "none")
    /\ txInserted' =
          IF txOpen
          THEN txInserted \cup {res.ret[i].id : i \in 1..Len(res.ret)}
          ELSE {}
    /\ txDeleted' =
          (txOpen /\ (txDeleted \/ \E q \in Range(res.stmts) : q.kind = "delete"))
    /\ last' = CallWith(op, params, res, created)
    /\ UNCHANGED <<txOpen, txSnapshot, callers, fake>>

Finish(op, args, filters, defaults, res, created) ==
    FinishWith(op, [NoParams EXCEPT !.args = args, !.filters = filters,
                                    !.defaults = defaults], res, created)

\* repo.insert(entity), while the identifier serial is below bound
InsertUnder(bound, entity) ==
    /\ Idle /\ ~pending
    /\ id_seq < bound
    /\ LET res == InsertImpl_insert(Db, entity)
       IN  Finish("insert", <<entity>>, <<>>, <<>>, res, FALSE)

Insert(entity) == InsertUnder(MaxId, entity)

\* Batches of at most MaxBatch records.
Batches == UNION {[1..n -> Entities] : n \in 0..MaxBatch}

\* repo.insert_many(entities); a batch the store rejects draws no identifier.
InsertMany(entities) ==
    LET res == InsertManyImpl_insert_many(Db, entities)
    IN  /\ Idle /\ ~pending
        /\ \/ id_seq + Len(entities) <= MaxId
           \/ id_seq < MaxId /\ res.err = "DataError"
        /\ Finish("insert_many", entities, <<>>, <<>>, res, FALSE)

\* Filters the caller passes, and lists of at most two of them.
FilterValues == {[col |-> "a", val |-> 60], [col |-> "id", val |-> 1]}

FilterLists(S) == {<<>>} \cup {<<f>> : f \in S} \cup {<<f, g>> : f, g \in S}

\* The defaults mappings of get_or_create: any subset of the fields.
DefaultsMappings ==
    UNION {[K -> {100, 60, 70}] : K \in SUBSET Fields}

WellTyped(defaults) ==
    /\ "price" \in DOMAIN defaults => defaults["price"] = 100
    /\ "a" \in DOMAIN defaults => defaults["a"] = 60
    /\ "seq_field" \in DOMAIN defaults => defaults["seq_field"] = 70

\* repo.get_or_create(filters, defaults)
GetOrCreate(filters, defaults) ==
    /\ Idle /\ ~pending
    /\ WellTyped(defaults)
    /\ id_seq < MaxId \/ Found(first(Db, filters))
    /\ LET r == get_or_create(Db, filters, defaults)
       IN  Finish("get_or_create", <<>>, filters, defaults, r.res, r.created)

\* repo.delete(*filters)
Delete(filters) ==
    /\ Idle /\ ~pending
    /\ Finish("delete", <<>>, filters, <<>>, delete(Db, filters), FALSE)

\* A marker for the steps of the caller's transaction scope.
ScopeStep(op) ==
    [NoCall EXCEPT !.op = op, !.before = rows, !.idBefore = id_seq,
                   !.seqBefore = seq_val, !.inTx = txOpen,
                   !.txStart = txSnapshot, !.txInserted = txInserted,
                   !.txDeleted = txDeleted]

\* async with repo.execute_in_transaction(): the scope is entered.
EnterScope ==
    /\ Idle /\ ~txOpen
    /\ txOpen' = TRUE
    /\ txSnapshot' = rows
    /\ txInserted' = {}
    /\ txDeleted' = FALSE
    /\ last' = ScopeStep("enter_scope")
    /\ UNCHANGED <<rows, id_seq, seq_val, pending, callers, fake>>

ExitScope_RollsBack ==
    /\ Idle /\ txOpen /\ ~pending
    /\ rows' = txSnapshot
    /\ txOpen' = FALSE
    /\ txSnapshot' = <<>>
    /\ txInserted' = {}
    /\ txDeleted' = FALSE
    /\ last' = ScopeStep("commit")
    /\ UNCHANGED <<id_seq, seq_val, pending, callers, fake>>

\* The body of the scope ends normally: the transaction commits.
ExitScope ==
    /\ Idle /\ txOpen /\ ~pending
    /\ txOpen' = FALSE
    /\ txSnapshot' = <<>>
    /\ txInserted' = {}
    /\ txDeleted' = FALSE
    /\ last' = ScopeStep("commit")
    /\ UNCHANGED <<rows, id_seq, seq_val, pending, callers, fake>>

\* The caller's own code raises inside the scope.
RaiseInScope ==
    /\ Idle /\ txOpen /\ ~pending
    /\ pending' = TRUE
    /\ last' = ScopeStep("raise")
    /\ UNCHANGED <<rows, id_seq, seq_val, txOpen, txSnapshot, txInserted,
                   txDeleted, callers, fake>>

RollbackScope_NoOp ==
    /\ Idle /\ txOpen /\ pending
    /\ txOpen' = FALSE
    /\ pending' = FALSE
    /\ txSnapshot' = <<>>
    /\ txInserted' = {}
    /\ txDeleted' = FALSE
    /\ last' = ScopeStep("rollback")
    /\ UNCHANGED <<rows, id_seq, seq_val, callers, fake>>

\* An exception leaves the scope: the transaction rolls back.  The rows are
\* those of the scope's start; the sequences keep the values they reached.
RollbackScope ==
    /\ Idle /\ txOpen /\ pending
    /\ rows' = txSnapshot
    /\ txOpen' = FALSE
    /\ pending' = FALSE
    /\ txSnapshot' = <<>>
    /\ txInserted' = {}
    /\ txDeleted' = FALSE
    /\ last' = ScopeStep("rollback")
    /\ UNCHANGED <<id_seq, seq_val, callers, fake>>

\* The call is over: the caller takes its outcome and goes on.
Return ==
    /\ ~Idle
    /\ last' = NoCall
    /\ UNCHANGED <<rows, id_seq, seq_val, txOpen, txSnapshot, txInserted,
                   txDeleted, pending, callers, fake>>

Next ==
    \/ \E e \in Entities : Insert(e)
    \/ \E b \in Batches : InsertMany(b)
    \/ \E f \in FilterLists(FilterValues), d \in DefaultsMappings :
          GetOrCreate(f, d)
    \/ \E f \in FilterLists(FilterValues \cup {NoneFilter}) : Delete(f)
    \/ EnterScope
    \/ ExitScope
    \/ RaiseInScope
    \/ RollbackScope
    \/ Return

Spec == Init /\ [][Next]_vars

\* ------------------------------------------------- updates and queries
\* Records the caller inserts before it updates and queries.
SeedEntities ==
    [id : {None}, price : {100, 200}, a : {0}, seq_field : {0, 70}]

\* Records the caller holds when it updates: with or without an identifier,
\* with field values of its own, some with a value of a the store cannot
\* coerce.
HeldEntities ==
    [id : {None} \cup 1..MaxId, price : {100, 200}, a : {60, NotAnInt},
     seq_field : {70}]

HeldBatches == UNION {[1..n -> HeldEntities] : n \in 0..MaxBatch}

\* Records the caller hands to update_or_insert_many_by_field.
NewEntities ==
    [id : {None}, price : {100, 200}, a : {60, NotAnInt}, seq_field : {70}]

NewBatches == UNION {[1..n -> NewEntities] : n \in 0..MaxBatch}

\* Keyword values of update_partial and value mappings of update_values.
UpdatedValues ==
    {[price |-> 200], [a |-> 60], [price |-> 200, seq_field |-> 70],
     [a |-> NotAnInt]}

\* Keyword values of update_partial: those, and one naming the identifier.
PartialValues == UpdatedValues \cup {[id |-> 2]}

UpdateFilterValues ==
    {[col |-> "price", val |-> 100], [col |-> "seq_field", val |-> 70]}

Asc(column) == [col |-> column, desc |-> FALSE]
Desc(column) == [col |-> column, desc |-> TRUE]

OrderLists ==
    {<<>>, <<Asc("price")>>, <<Desc("seq_field")>>,
     <<Asc("price"), Desc("seq_field")>>, <<Asc("seq_field"), Desc("price")>>}

\* repo.update(entity)
Update(entity) ==
    /\ Idle /\ ~pending
    /\ FinishWith("update", [NoParams EXCEPT !.args = <<entity>>],
                  update(Db, entity), FALSE)

\* repo.update_partial(entity, **updated_values)
UpdatePartial(entity, updated_values) ==
    /\ Idle /\ ~pending
    /\ FinishWith("update_partial",
                  [NoParams EXCEPT !.args = <<entity>>, !.values = updated_values],
                  update_partial(Db, entity, updated_values), FALSE)

\* repo.update_many(entities)
UpdateMany(entities) ==
    /\ Idle /\ ~pending
    /\ FinishWith("update_many", [NoParams EXCEPT !.args = entities],
                  update_many(Db, entities), FALSE)

\* repo.update_values(values, filters)
UpdateValues(values, filters) ==
    /\ Idle /\ ~pending
    /\ FinishWith("update_values",
                  [NoParams EXCEPT !.values = values, !.filters = filters],
                  update_values(Db, values, filters), FALSE)

\* repo.update_or_insert_many_by_field(entities, field)
UpdateOrInsertManyByField(entities, field) ==
    LET res == update_or_insert_many_by_field(Db, entities, field)
    IN  /\ Idle /\ ~pending
        /\ res.db.id_seq <= MaxRows
        /\ FinishWith("update_or_insert_many_by_field",
                      [NoParams EXCEPT !.args = entities, !.field = field],
                      res, FALSE)

\* repo.get_all(filters, orders)
GetAll(filters, orders) ==
    /\ Idle /\ ~pending
    /\ \E result \in get_all_results(Db, filters, orders) :
          FinishWith("get_all",
                     [NoParams EXCEPT !.filters = filters, !.orders = orders],
                     Outcome("none", Db, result, <<>>,
                             <<SelectQuery(filters, orders)>>),
                     FALSE)

NextUpdate ==
    \/ \E e \in SeedEntities : InsertUnder(MaxRows, e)
    \/ \E e \in HeldEntities : Update(e)
    \/ \E e \in HeldEntities, v \in PartialValues : UpdatePartial(e, v)
    \/ \E b \in HeldBatches : UpdateMany(b)
    \/ \E v \in UpdatedValues, f \in FilterLists(UpdateFilterValues) :
          UpdateValues(v, f)
    \/ \E b \in NewBatches, f \in {"price"} : UpdateOrInsertManyByField(b, f)
    \/ \E f \in FilterLists(UpdateFilterValues), o \in OrderLists : GetAll(f, o)
    \/ Return

SpecUpdate == Init /\ [][NextUpdate]_vars

\* ------------------------------------- calls on DatabasesQueryExecutor
\* Keyword parameters a caller may pass along with the query.
SaParams == {<<>>, [aue |-> 123]}

\* The queries handed to the executor's methods.
SelectQueries ==
    {SelectQuery(f, <<>>) : f \in FilterLists(UpdateFilterValues)}

InsertQueries ==
    {InsertQuery(_serialize_for_insertion(e), insert_returning_columns) :
        e \in SeedEntities}

InsertManyQueries ==
    {InsertManyQuery([i \in 1..Len(b) |-> _serialize_for_insertion(b[i])],
                     insert_returning_columns) :
        b \in UNION {[1..n -> SeedEntities] : n \in 1..MaxBatch}}

UpdateQueries ==
    {UpdateQuery(v, f) : v \in UpdatedValues, f \in FilterLists(UpdateFilterValues)}

DeleteQueries ==
    {DeleteQuery(f) : f \in FilterLists(UpdateFilterValues) \ {<<>>}}

ExecutorCalls ==
    ({"fetch_one", "fetch_all", "fetch_val"} \X SelectQueries)
    \cup ({"insert"} \X InsertQueries)
    \cup ({"insert_many"} \X InsertManyQueries)
    \cup ({"update"} \X UpdateQueries)
    \cup ({"delete"} \X DeleteQueries)

\* await query_executor.<method>(query, **sa_params)
ExecutorCall(method, query, sa_params) ==
    LET res == DatabasesQueryExecutor(method, Db, query, sa_params)
    IN  /\ Idle /\ ~pending
        /\ res.db.id_seq <= MaxId
        /\ FinishWith("query_executor",
                      [NoParams EXCEPT !.method = method, !.query = query,
                                       !.sa_params = sa_params],
                      Outcome(res.err, res.db, <<>>, res.ret, res.stmts), FALSE)

NextExecutor ==
    \/ \E c \in ExecutorCalls, p \in SaParams : ExecutorCall(c[1], c[2], p)
    \/ Return

SpecExecutor == Init /\ [][NextExecutor]_vars

\* ------------------------------------------- two callers of get_or_create
\* get_or_create awaits twice: at first() and at insert().  Between the two
\* the event loop may run another caller.

\* Filters and defaults the concurrent callers pass.
ConcurrentFilters == {<<>>, <<[col |-> "a", val |-> 60]>>}

ConcurrentDefaults == {d \in DefaultsMappings : WellTyped(d)}

\* get_or_create up to its first await: the SELECT of first() has run.
GocFirst(c, filters, defaults) ==
    /\ callers[c].pc = "idle"
    /\ callers' =
          [callers EXCEPT ![c] =
              [NotCalling EXCEPT !.pc = "checked", !.filters = filters,
                                 !.defaults = defaults,
                                 !.entity = first(Db, filters)]]
    /\ UNCHANGED <<rows, id_seq, seq_val, txOpen, txSnapshot, txInserted,
                   txDeleted, pending, last, fake>>

GocInsert_Recheck(c) ==
    LET me == callers[c]
        r == get_or_create(Db, me.filters, me.defaults)
    IN  /\ me.pc = "checked"
        /\ Found(first(Db, me.filters)) \/ ~Constructible(me.defaults)
              \/ id_seq < MaxId
        /\ rows' = r.res.db.rows
        /\ id_seq' = r.res.db.id_seq
        /\ seq_val' = r.res.db.seq_val
        /\ callers' =
              [callers EXCEPT ![c] =
                  [me EXCEPT !.pc = "done", !.err = r.res.err,
                             !.out = r.res.out, !.created = r.created]]
        /\ UNCHANGED <<txOpen, txSnapshot, txInserted, txDeleted, pending, last, fake>>

\* get_or_create resumed with the result of first(): it returns the match,
\* or builds the record from defaults and inserts it.
GocInsert(c) ==
    LET me == callers[c]
        r == get_or_create_after_first(Db, me.entity, me.filters, me.defaults)
    IN  /\ me.pc = "checked"
        /\ Found(me.entity) \/ ~Constructible(me.defaults) \/ id_seq < MaxId
        /\ rows' = r.res.db.rows
        /\ id_seq' = r.res.db.id_seq
        /\ seq_val' = r.res.db.seq_val
        /\ callers' =
              [callers EXCEPT ![c] =
                  [me EXCEPT !.pc = "done", !.err = r.res.err,
                             !.out = r.res.out, !.created = r.created]]
        /\ UNCHANGED <<txOpen, txSnapshot, txInserted, txDeleted, pending, last, fake>>

\* The caller takes the result of its call.
GocReturn(c) ==
    /\ callers[c].pc = "done"
    /\ callers' = [callers EXCEPT ![c] = NotCalling]
    /\ UNCHANGED <<rows, id_seq, seq_val, txOpen, txSnapshot, txInserted,
                   txDeleted, pending, last, fake>>

NextConcurrent ==
    \/ \E c \in Callers, f \in ConcurrentFilters, d \in ConcurrentDefaults :
          GocFirst(c, f, d)
    \/ \E c \in Callers : GocInsert(c)
    \/ \E c \in Callers : GocReturn(c)

SpecConcurrent == Init /\ [][NextConcurrent]_vars

\* ------------------------- two cooperative callers of update_or_insert_*
\* Records the callers pass; price is the field they are matched by.
UpsertEntities == [id : {None}, price : {100, 200}, a : {0, 60}, seq_field : {70}]

\* Batches for update_or_insert_many_by_field, of records that set a.
UpsertBatches ==
    UNION {[1..n -> {e \in UpsertEntities : e.a = 60}] : n \in 1..MaxBatch}

\* The filter of the existence lookup of each operation.
UpsertFilters(op, entities, field) ==
    IF op = "update_or_insert_first"
    THEN <<[col |-> field, val |-> entities[1][field]]>>
    ELSE <<InFilter(field, {entities[i][field] : i \in 1..Len(entities)})>>

\* update_or_insert_first / update_or_insert_many_by_field up to the await of
\* get_all: the lookup has run, no transaction scope is open yet.
UpsertLookup(c, op, entities, field) ==
    /\ callers[c].pc = "idle"
    /\ callers' =
          [callers EXCEPT ![c] =
              [pc |-> "checked", op |-> op, args |-> entities, field |-> field,
               found |-> get_all(Db, UpsertFilters(op, entities, field)),
               err |-> "none", out |-> <<>>, stmts |-> <<>>]]
    /\ UNCHANGED <<rows, id_seq, seq_val, txOpen, txSnapshot, txInserted,
                   txDeleted, pending, last, fake>>

UpsertWrite_LooksUpInScope(c) ==
    LET me == callers[c]
        res == IF me.op = "update_or_insert_first"
               THEN update_or_insert_first(Db, me.args[1], me.field)
               ELSE update_or_insert_many_by_field(Db, me.args, me.field)
    IN  /\ me.pc = "checked"
        /\ res.db.id_seq <= MaxId
        /\ rows' = res.db.rows
        /\ id_seq' = res.db.id_seq
        /\ seq_val' = res.db.seq_val
        /\ callers' =
              [callers EXCEPT ![c] =
                  [me EXCEPT !.pc = "done", !.err = res.err, !.out = res.out,
                             !.stmts = res.stmts]]
        /\ UNCHANGED <<txOpen, txSnapshot, txInserted, txDeleted, pending, last, fake>>

\* The call resumed with the result of its lookup: the transaction scope with
\* the inserts and updates the lookup decided.
UpsertWrite(c) ==
    LET me == callers[c]
        res == IF me.op = "update_or_insert_first"
               THEN update_or_insert_first_after_lookup(
                        Db, me.args[1], me.field, me.found)
               ELSE update_or_insert_many_after_lookup(
                        Db, me.args, me.field, me.found)
    IN  /\ me.pc = "checked"
        /\ res.db.id_seq <= MaxId
        /\ rows' = res.db.rows
        /\ id_seq' = res.db.id_seq
        /\ seq_val' = res.db.seq_val
        /\ callers' =
              [callers EXCEPT ![c] =
                  [me EXCEPT !.pc = "done", !.err = res.err, !.out = res.out,
                             !.stmts = res.stmts]]
        /\ UNCHANGED <<txOpen, txSnapshot, txInserted, txDeleted, pending, last, fake>>

NextUpsert ==
    \/ \E c \in Callers, e \in UpsertEntities :
          UpsertLookup(c, "update_or_insert_first", <<e>>, "price")
    \/ \E c \in Callers, b \in UpsertBatches :
          UpsertLookup(c, "update_or_insert_many_by_field", b, "price")
    \/ \E c \in Callers : UpsertWrite(c)
    \/ \E c \in Callers : GocReturn(c)

SpecUpsert == Init /\ [][NextUpsert]_vars

\* ------------------------------------ insert_many_aiter and its consumer
\* aiter_to_list: the list of what an asynchronous iterator yields, in the
\* order it yields it.
aiter_to_list(yielded) == [i \in 1..Len(yielded) |-> yielded[i]]

\* The caller that consumes the iterator.
Consumer == 1

\* A caller holding the iterator insert_many_aiter returned: the records as
\* the caller holds them, the rows the executor's iterator delivers, how many
\* pairs were yielded and the records yielded.
Iterating(op, args, entities, source, stmts) ==
    [pc |-> "iterating", op |-> op, args |-> args, entities |-> entities,
     source |-> source, pos |-> 0, yielded |-> <<>>, out |-> <<>>,
     err |-> "none", stmts |-> stmts, before |-> rows]

insert_many_aiter_Eager(db, entities, k) ==
    IF Len(entities) = 0
    THEN Outcome("none", db, entities, <<>>, <<>>)
    ELSE IF ~_check_server_defaults(entities)
    THEN Outcome("ValueError", db, entities, <<>>, <<>>)
    ELSE LET query == InsertManyQuery(
                          [i \in 1..Len(entities) |->
                              _serialize_for_insertion(entities[i])],
                          insert_returning_columns)
             res == ExecInsertMany(db, query)
         IN  IF res.err # "none"
             THEN Outcome(res.err, res.db, entities, <<>>, <<query>>)
             ELSE Outcome("none", res.db,
                          _updated_entities(entities, SubSeq(res.ret, 1, k)),
                          SubSeq(res.ret, 1, k), <<query>>)

\* InsertManyImpl.insert_many_aiter up to its return: nothing for an empty
\* list; otherwise the consistency check, then the multi-row INSERT is
\* awaited, and the records (untouched) go with the executor's row iterator
\* into _updated_entities_aiter.  The executor's iterator delivers k of the
\* rows the INSERT returned (all of them, unless the driver drops some).
insert_many_aiter(db, entities, k) ==
    IF Len(entities) = 0
    THEN Outcome("none", db, entities, <<>>, <<>>)
    ELSE IF ~_check_server_defaults(entities)
    THEN Outcome("ValueError", db, entities, <<>>, <<>>)
    ELSE LET query == InsertManyQuery(
                          [i \in 1..Len(entities) |->
                              _serialize_for_insertion(entities[i])],
                          insert_returning_columns)
             res == ExecInsertMany(db, query)
         IN  IF res.err # "none"
             THEN Outcome(res.err, res.db, entities, <<>>, <<query>>)
             ELSE Outcome("none", res.db, entities, SubSeq(res.ret, 1, k),
                          <<query>>)

\* await repo.insert_many_aiter(entities), or insert_many up to the first
\* item it asks of the iterator.
AiterCall(c, op, entities, k) ==
    LET res == insert_many_aiter(Db, entities, k)
        it == Iterating(op, entities, res.out, res.ret, res.stmts)
    IN  /\ callers[c].pc = "idle"
        /\ id_seq + Len(entities) <= MaxId
        /\ rows' = res.db.rows
        /\ id_seq' = res.db.id_seq
        /\ seq_val' = res.db.seq_val
        /\ callers' =
              [callers EXCEPT ![c] =
                  IF res.err = "none" THEN it
                  ELSE [it EXCEPT !.pc = "done", !.err = res.err]]
        /\ UNCHANGED <<txOpen, txSnapshot, txInserted, txDeleted, pending, last, fake>>

AiterNext_AlignedAtEnd(c) ==
    LET me == callers[c]
        skip == Len(me.entities) - Len(me.source)
        i == me.pos + 1
        entity == _set_ignored_fields(me.entities[skip + i], me.source[i])
    IN  /\ me.pc = "iterating"
        /\ me.pos < Len(me.source)
        /\ callers' =
              [callers EXCEPT ![c] =
                  [me EXCEPT !.pos = i,
                             !.entities = [me.entities EXCEPT ![skip + i] = entity],
                             !.yielded = Append(me.yielded, entity)]]
        /\ UNCHANGED <<rows, id_seq, seq_val, txOpen, txSnapshot, txInserted,
                       txDeleted, pending, last, fake>>

\* One item of _updated_entities_aiter: the next pair of mixed_zip(entities,
\* rows), the record takes the row's values and is yielded.
AiterNext(c) ==
    LET me == callers[c]
        pairs == mixed_zip(me.entities, me.source)
        i == me.pos + 1
        entity == _set_ignored_fields(pairs[i][1], pairs[i][2])
    IN  /\ me.pc = "iterating"
        /\ me.pos < Len(pairs)
        /\ callers' =
              [callers EXCEPT ![c] =
                  [me EXCEPT !.pos = i,
                             !.entities = [me.entities EXCEPT ![i] = entity],
                             !.yielded = Append(me.yielded, entity)]]
        /\ UNCHANGED <<rows, id_seq, seq_val, txOpen, txSnapshot, txInserted,
                       txDeleted, pending, last, fake>>

\* mixed_zip has no pair left: the iterator ends, and insert_many returns the
\* list aiter_to_list built.
AiterStop(c) ==
    LET me == callers[c]
    IN  /\ me.pc = "iterating"
        /\ me.pos = Len(mixed_zip(me.entities, me.source))
        /\ callers' =
              [callers EXCEPT ![c] =
                  [me EXCEPT !.pc = "done", !.out = aiter_to_list(me.yielded)]]
        /\ UNCHANGED <<rows, id_seq, seq_val, txOpen, txSnapshot, txInserted,
                       txDeleted, pending, last, fake>>

NextIterate ==
    \/ \E op \in {"insert_many", "insert_many_aiter"}, b \in Batches,
          k \in 0..MaxBatch :
          k <= Len(b) /\ AiterCall(Consumer, op, b, k)
    \/ AiterNext(Consumer)
    \/ AiterStop(Consumer)
    \/ GocReturn(Consumer)

SpecIterate == Init /\ [][NextIterate]_vars


\* --------------------------------------------------- calls on FakeRepo
FakeStep(repo) ==
    /\ fake' = repo
    /\ UNCHANGED <<rows, id_seq, seq_val, txOpen, txSnapshot, txInserted,
                   txDeleted, pending, last, callers>>

\* await fake_repo.insert(entity), while identifiers are within the bound
FakeInsert(entity) ==
    /\ fake.id_counter <= MaxRows
    /\ FakeStep(FakeRepo_insert(fake, entity))

\* await fake_repo.insert_many(entities)
FakeInsertMany(entities) ==
    /\ fake.id_counter + Len(entities) - 1 <= MaxRows
    /\ FakeStep(FakeRepo_insert_many(fake, entities))

\* await fake_repo.delete_by_id(entity_id)
FakeDeleteById(entity_id) ==
    /\ entity_id # None
    /\ FakeStep(FakeRepo_delete_by_id(fake, entity_id))

\* await fake_repo.delete_by_ids(entity_ids)
FakeDeleteByIds(entity_ids) ==
    /\ None \notin entity_ids
    /\ FakeStep(FakeRepo_delete_by_ids(fake, entity_ids))

FakeBatches == UNION {[1..n -> FakeObjects] : n \in 0..MaxBatch}

NextFake ==
    \/ \E o \in FakeObjects : FakeInsert(o)
    \/ \E b \in FakeBatches : FakeInsertMany(b)
    \/ \E i \in 1..MaxRows : FakeDeleteById(i)
    \/ \E ids \in SUBSET (1..MaxRows) : FakeDeleteByIds(ids)

SpecFake == Init /\ [][NextFake]_vars

\* ------------------------------------------------------------- properties
\* The rows the last call added to the table.
Base == Len(last.before)

Grew(n) ==
    /\ Len(rows) = Base + n
    /\ SubSeq(rows, 1, Base) = last.before

IdsOf(table_rows) == {table_rows[i].id : i \in 1..Len(table_rows)}

\* C1: for every record r with a null identifier, a successful insert(r)
\* leaves r.id non-null and equal to the identifier of the one new row, and
\* get_by_id(r.id) then returns a record equal to r.
C1_InsertSetsIdAndReadsBack ==
    (last.op = "insert" /\ last.err = "none" /\ last.args[1].id = None) =>
        LET r == last.out[1]
        IN  /\ r.id # None
            /\ Grew(1)
            /\ r.id = rows[Len(rows)].id
            /\ r.id \notin IdsOf(last.before)
            /\ get_by_id(Db, r.id) = <<r>>

C1_Witness ==
    /\ last.op = "insert" /\ last.err = "none" /\ last.args[1].id = None
    /\ last.before # <<>>
    /\ last.out[1].id = 2

\* C2: for every non-empty batch, a successful insert_many gives the i-th
\* record the identifier of the i-th inserted row, the identifiers increase
\* strictly in input order, and on a previously empty table get_all() then
\* returns exactly the batch.
C2_InsertManyIdsInInputOrder ==
    (last.op = "insert_many" /\ last.err = "none" /\ Len(last.args) > 0) =>
        LET n == Len(last.args)
        IN  /\ Len(last.out) = n
            /\ Grew(n)
            /\ \A i \in 1..n :
                  /\ last.out[i].id # None
                  /\ last.out[i].id = rows[Base + i].id
            /\ \A i, j \in 1..n : i < j => last.out[i].id < last.out[j].id
            /\ last.before = <<>> => get_all(Db, <<>>) = last.out

C2_Witness ==
    /\ last.op = "insert_many" /\ last.err = "none" /\ Len(last.args) = 2
    /\ last.before = <<>>
    /\ last.args[1] # last.args[2]
    /\ get_all(Db, <<>>) = last.out

\* C3: delete() with no filter raises ValueError before any statement reaches
\* the executor, and the table is as it was before the call.
C3_DeleteWithoutFiltersRaises ==
    (last.op = "delete" /\ last.filters = <<>>) =>
        /\ last.err = "ValueError"
        /\ last.stmts = <<>>
        /\ rows = last.before

C3_Witness ==
    /\ last.op = "delete" /\ last.filters = <<>>
    /\ last.err = "ValueError"
    /\ rows # <<>>

\* C4: delete(None), the match-all sentinel alone, raises nothing and deletes
\* every row whatever the table held; get_all() is then empty.
C4_DeleteNoneDeletesAll ==
    (last.op = "delete" /\ last.filters = <<NoneFilter>>) =>
        /\ last.err = "none"
        /\ rows = <<>>
        /\ get_all(Db, <<>>) = <<>>

C4_Witness ==
    /\ last.op = "delete" /\ last.filters = <<NoneFilter>>
    /\ Len(last.before) = 2
    /\ rows = <<>>

\* Some records of the batch leave the field at its default, others do not.
MixedDefaults(entities, f) ==
    \E i, j \in 1..Len(entities) :
        /\ is_field_equal_to_default(entities[i], f)
        /\ ~is_field_equal_to_default(entities[j], f)

\* C5: insert_many on a batch that mixes default and non-default values of
\* the sequence-backed field seq_field raises ValueError before any statement
\* is issued: no row is inserted, the table and the sequences are unchanged
\* and no record of the batch receives an identifier.
C5_MixedServerDefaultsRejected ==
    (last.op = "insert_many" /\ MixedDefaults(last.args, "seq_field")) =>
        /\ last.err = "ValueError"
        /\ last.stmts = <<>>
        /\ rows = last.before
        /\ id_seq = last.idBefore /\ seq_val = last.seqBefore
        /\ last.out = last.args
        /\ \A i \in 1..Len(last.out) : last.out[i].id = None

C5_Witness ==
    /\ last.op = "insert_many" /\ MixedDefaults(last.args, "seq_field")
    /\ last.err = "ValueError"
    /\ last.args[1].seq_field = 90 /\ last.args[2].seq_field = 0
    /\ last.inTx

\* C6: a successful insert_many whose records all leave seq_field at its
\* default gives them consecutive sequence values in input order (1, 2, ...
\* on a fresh sequence), written back to the records and stored; one whose
\* records all set seq_field keeps each explicit value, in the record and in
\* its row, in input order.
C6_InsertManySequenceField ==
    (last.op = "insert_many" /\ last.err = "none" /\ Len(last.args) > 0) =>
        LET n == Len(last.args)
        IN  /\ (\A i \in 1..n : last.args[i].seq_field = FieldDefault("seq_field"))
                => \A i \in 1..n :
                      /\ last.out[i].seq_field = last.seqBefore + i
                      /\ rows[Base + i].seq_field = last.seqBefore + i
            /\ (\A i \in 1..n : last.args[i].seq_field # FieldDefault("seq_field"))
                => \A i \in 1..n :
                      /\ last.out[i].seq_field = last.args[i].seq_field
                      /\ rows[Base + i].seq_field = last.args[i].seq_field

C6_Witness ==
    /\ last.op = "insert_many" /\ last.err = "none" /\ Len(last.args) = 2
    /\ last.seqBefore = 0
    /\ last.out[1].seq_field = 1 /\ last.out[2].seq_field = 2

C6_WitnessExplicit ==
    /\ last.op = "insert_many" /\ last.err = "none" /\ Len(last.args) = 2
    /\ last.out[1].seq_field = 90 /\ last.out[2].seq_field = 70
    /\ rows[Base + 1].seq_field = 90 /\ rows[Base + 2].seq_field = 70

\* C7: in a successful insert, an ignore-default field equal to its declared
\* default is left out of the payload and the record takes the value the
\* store resolved (5 for a); a field that differs from the default is sent
\* and stored as given; either way the returned record is the row that
\* get_all() reads back.
C7_IgnoreDefaultRoundTrip ==
    (last.op = "insert" /\ last.err = "none") =>
        LET e == last.args[1]
            r == last.out[1]
            payload == last.stmts[1].values
            row == rows[Len(rows)]
            all == get_all(Db, <<>>)
        IN  /\ \A f \in Range(ignore_default) :
                  IF e[f] = FieldDefault(f)
                  THEN /\ f \notin DOMAIN payload
                       /\ r[f] = row[f]
                       /\ f = "a" => r[f] = ColumnDefaultA
                       /\ f = "seq_field" => r[f] = last.seqBefore + 1
                  ELSE /\ f \in DOMAIN payload /\ payload[f] = e[f]
                       /\ row[f] = e[f]
                       /\ r[f] = e[f]
            /\ all[Len(all)] = r

C7_Witness ==
    /\ last.op = "insert" /\ last.err = "none"
    /\ last.args[1].a = 0 /\ last.out[1].a = 5
    /\ last.args[1].seq_field = 70 /\ last.out[1].seq_field = 70

C7_WitnessExplicit ==
    /\ last.op = "insert" /\ last.err = "none"
    /\ last.args[1].a = 60 /\ rows[Len(rows)].a = 60

\* C8: when an error leaves an execute_in_transaction() scope in which one or
\* more inserts succeeded, nothing of the scope is committed: the table holds
\* exactly the rows it held when the scope was opened.
C8_ErrorInScopeRollsBack ==
    (last.op = "rollback" /\ last.txInserted # {}) =>
        /\ rows = last.txStart
        /\ IdsOf(rows) \cap last.txInserted = {}

C8_Witness ==
    /\ last.op = "rollback" /\ last.txInserted # {}
    /\ last.before # rows
    /\ rows # <<>>

\* C9: when an execute_in_transaction() scope exits normally everything done
\* in it is committed together: the table is the one the scope saw at its
\* end, and (no DELETE having run in the scope) every row inserted in the
\* scope is visible to get_all() and get_by_id() after it.
C9_NormalExitCommits ==
    (last.op = "commit") =>
        /\ rows = last.before
        /\ ~last.txDeleted =>
              /\ \A i \in last.txInserted : Found(get_by_id(Db, i))
              /\ Len(get_all(Db, <<>>))
                    = Len(last.txStart) + Cardinality(last.txInserted)

C9_Witness ==
    /\ last.op = "commit" /\ ~last.txDeleted
    /\ Cardinality(last.txInserted) = 2
    /\ Len(get_all(Db, <<>>)) = 2

\* C10: a get_or_create that returns has created = true exactly when
\* first(*filters) found no row; then exactly one row, built from defaults,
\* was inserted and is returned with a non-null identifier (so it always
\* creates on an empty table); when a row matched, that row is returned with
\* created = false and the table is unchanged.
C10_GetOrCreate ==
    (last.op = "get_or_create" /\ last.err = "none") =>
        LET found == first(Store(last.before, last.idBefore, last.seqBefore),
                           last.filters)
            row == rows[Len(rows)]
            given(f) == f \in DOMAIN last.defaults
                        /\ last.defaults[f] # FieldDefault(f)
        IN  /\ last.created <=> found = <<>>
            /\ last.before = <<>> => last.created
            /\ last.created =>
                  /\ Grew(1)
                  /\ row.price = last.defaults["price"]
                  /\ row.a = IF given("a") THEN last.defaults["a"]
                             ELSE ColumnDefaultA
                  /\ row.seq_field = IF given("seq_field")
                                     THEN last.defaults["seq_field"]
                                     ELSE last.seqBefore + 1
                  /\ last.out = <<deserialize(row)>>
                  /\ last.out[1].id # None
                  /\ last.out[1].id \notin IdsOf(last.before)
            /\ ~last.created =>
                  /\ last.out = found
                  /\ rows = last.before

C10_Witness ==
    /\ last.op = "get_or_create" /\ last.err = "none" /\ last.created
    /\ last.before # <<>>
    /\ last.filters # <<>>

C10_WitnessMatch ==
    /\ last.op = "get_or_create" /\ last.err = "none" /\ ~last.created
    /\ last.filters # <<>>
    /\ Len(rows) = 2

\* C11: get_or_create is not atomic.  Two callers with the same filters that
\* both saw no match at first() both insert: both return created = true and
\* the table holds both their rows; there is such a run in which the two
\* rows satisfy the filter the callers looked for.
C11_GetOrCreateNotAtomic ==
    \A c, d \in Callers :
        (/\ c # d
         /\ callers[c].pc = "done" /\ callers[d].pc = "done"
         /\ callers[c].filters = callers[d].filters
         /\ ~Found(callers[c].entity) /\ ~Found(callers[d].entity)
         /\ callers[c].err = "none" /\ callers[d].err = "none") =>
            /\ callers[c].created /\ callers[d].created
            /\ callers[c].out[1].id # callers[d].out[1].id
            /\ {callers[c].out[1].id, callers[d].out[1].id} \subseteq IdsOf(rows)

C11_Witness ==
    /\ callers[1].pc = "done" /\ callers[2].pc = "done"
    /\ callers[1].filters = <<[col |-> "a", val |-> 60]>>
    /\ callers[2].filters = callers[1].filters
    /\ callers[1].created /\ callers[2].created
    /\ Len(rows) = 2
    /\ Len(apply_filters(rows, callers[1].filters)) = 2


\* C12: a successful update_partial(r, **values) changes, in the stored row
\* with r's identifier, the named columns to the given values and nothing
\* else: every other column of that row and every other row are as before the
\* call, whatever the other fields of the in-memory record hold; the record
\* holds the given values afterwards.
C12_UpdatePartialOnlyNamedFields ==
    (last.op = "update_partial" /\ last.err = "none") =>
        LET r == last.args[1]
            v == last.values
        IN  /\ Len(rows) = Len(last.before)
            /\ \A i \in 1..Len(rows) :
                  /\ rows[i].id = last.before[i].id
                  /\ \A c \in Fields :
                        rows[i][c] =
                            IF last.before[i].id = r.id /\ c \in DOMAIN v
                            THEN v[c] ELSE last.before[i][c]
            /\ \A f \in DOMAIN v : last.out[1][f] = v[f]

C12_Witness ==
    /\ last.op = "update_partial" /\ last.err = "none"
    /\ last.values = [a |-> 60]
    /\ Len(rows) >= 2
    /\ rows # last.before
    /\ \E i \in 1..Len(rows) :
          /\ rows[i].id = last.args[1].id
          /\ last.before[i].price # last.args[1].price
          /\ rows[i].price = last.before[i].price

\* C13: get_all(filters, orders) returns exactly the stored rows that satisfy
\* every filter, each once, and arranged by the orders: for two returned
\* records, the first order on which they differ puts them the right way
\* round (later orders decide only among records equal on the earlier ones).
C13_GetAllFilteredAndSorted ==
    (last.op = "get_all") =>
        LET out == last.out
            satisfying ==
                {r \in Range(rows) :
                    \A k \in 1..Len(last.filters) :
                        r[last.filters[k].col] = last.filters[k].val}
        IN  /\ last.err = "none"
            /\ Range(out) = satisfying
            /\ Len(out) = Cardinality(satisfying)
            /\ \A i, j \in 1..Len(out) : i < j =>
                  \A k \in 1..Len(last.orders) :
                      (\A m \in 1..(k - 1) :
                          out[i][last.orders[m].col] = out[j][last.orders[m].col])
                      => IF last.orders[k].desc
                         THEN out[i][last.orders[k].col] >= out[j][last.orders[k].col]
                         ELSE out[i][last.orders[k].col] <= out[j][last.orders[k].col]

C13_Witness ==
    /\ last.op = "get_all"
    /\ last.filters = <<[col |-> "price", val |-> 100]>>
    /\ last.orders = <<Asc("price"), Desc("seq_field")>>
    /\ Len(rows) = 3
    /\ Len(last.out) = 2
    /\ last.out[1].id > last.out[2].id
    /\ last.out[1].seq_field > last.out[2].seq_field

\* C15: update(record) and update_partial(record, ...) on a record whose
\* identifier is null raise an assertion error before any query is built or
\* sent; the store is unchanged.
C15_UpdateWithoutIdFails ==
    (last.op \in {"update", "update_partial"} /\ last.args[1].id = None) =>
        /\ last.err = "AssertionError"
        /\ last.stmts = <<>>
        /\ rows = last.before
        /\ id_seq = last.idBefore /\ seq_val = last.seqBefore

C15_Witness ==
    /\ last.op = "update_partial" /\ last.args[1].id = None
    /\ last.err = "AssertionError"
    /\ last.values = [price |-> 200]
    /\ \E i \in 1..Len(rows) : rows[i].price = 100

C15_WitnessUpdate ==
    /\ last.op = "update" /\ last.args[1].id = None
    /\ last.err = "AssertionError"
    /\ rows # <<>>


\* C16: after a successful update_or_insert_many_by_field(records, field),
\* every record whose field value is that of a row of the table has taken the
\* identifier of such a row and has sent its fields to it in an UPDATE (the
\* row then holds the fields of the last record with that value); every other
\* record is a new row with a new identifier; the rows keep their
\* identifiers and their number grows by the number of the other records.
C16_UpdateOrInsertManyByField ==
    (last.op = "update_or_insert_many_by_field" /\ last.err = "none") =>
        LET field == last.field
            HasRow(v) == \E b \in Range(last.before) : b[field] = v
            matching == SelectSeq(last.args, LAMBDA e : HasRow(e[field]))
            others == SelectSeq(last.args, LAMBDA e : ~HasRow(e[field]))
            n == Len(others)
        IN  /\ Len(rows) = Base + n
            /\ \A i \in 1..Base : rows[i].id = last.before[i].id
            /\ Len(last.out) = Len(last.args)
            /\ \A j \in 1..n :
                  /\ last.out[j].id = rows[Base + j].id
                  /\ last.out[j].id \notin IdsOf(last.before)
                  /\ \A c \in Fields : rows[Base + j][c] = others[j][c]
            /\ \A j \in 1..Len(matching) :
                  LET rec == last.out[n + j]
                      final == CHOOSE k \in 1..Len(matching) :
                                  /\ matching[k][field] = matching[j][field]
                                  /\ \A m \in (k + 1)..Len(matching) :
                                        matching[m][field] # matching[j][field]
                  IN  /\ \E b \in Range(last.before) :
                            b[field] = rec[field] /\ b.id = rec.id
                      /\ \A c \in Fields : rec[c] = matching[j][c]
                      /\ \E q \in Range(last.stmts) :
                            /\ q.kind = "update"
                            /\ q.filters = <<[col |-> "id", val |-> rec.id]>>
                            /\ q.values = [c \in Fields |-> matching[j][c]]
                      /\ \A i \in 1..Base :
                            rows[i].id = rec.id =>
                                \A c \in Fields : rows[i][c] = matching[final][c]
            /\ \A i \in 1..Base :
                  (\A j \in 1..Len(last.out) : last.out[j].id # rows[i].id)
                      => rows[i] = last.before[i]

C16_Witness ==
    /\ last.op = "update_or_insert_many_by_field" /\ last.err = "none"
    /\ Len(last.args) = 2
    /\ Len(last.before) = 2
    /\ Len(rows) = 3
    /\ last.out[1].id = 3
    /\ last.out[2].id = 2
    /\ rows[2] # last.before[2]
    /\ rows[1] = last.before[1]

\* C17: update_or_insert_many_by_field is all-or-nothing.  Its insert and its
\* updates run between the begin and the end of one transaction scope, and
\* when the call raises, the table is as it was before the call, also when
\* rows had been inserted before the failing statement.
C17_UpdateOrInsertAllOrNothing ==
    (last.op = "update_or_insert_many_by_field") =>
        /\ last.err # "none" => rows = last.before
        /\ \A i \in 1..Len(last.stmts) :
              last.stmts[i].kind \in {"insert_many", "update"} =>
                  /\ last.stmts[2] = Begin
                  /\ 2 < i /\ i < Len(last.stmts)
                  /\ last.stmts[Len(last.stmts)] =
                        IF last.err = "none" THEN Commit ELSE Rollback

C17_Witness ==
    /\ last.op = "update_or_insert_many_by_field" /\ last.err = "DataError"
    /\ last.before # <<>>
    /\ id_seq = last.idBefore + 1
    /\ \E i \in 1..Len(last.stmts) : last.stmts[i].kind = "insert_many"
    /\ \E i \in 1..Len(last.stmts) : last.stmts[i].kind = "update"
    /\ rows = last.before

\* The statements update_many sends for a batch: one UPDATE per record, by the
\* record's identifier, in input order.
C18_Updates(entities) ==
    [i \in 1..Len(entities) |->
        [kind |-> "update",
         values |-> [c \in Fields |-> entities[i][c]],
         filters |-> <<[col |-> "id", val |-> entities[i].id]>>]]

\* C18 as stated: update_many sends one update per record, in input order,
\* inside one transaction scope; after a successful call every record's row
\* holds the record's fields; after a failed call no update of the batch is
\* in the table.
C18_EveryRecordsRowHoldsIt ==
    (last.op = "update_many" /\ Len(last.args) > 0) =>
        /\ last.err = "none" =>
              /\ last.stmts = <<Begin>> \o C18_Updates(last.args) \o <<Commit>>
              /\ \A i \in 1..Len(last.args) : \A k \in 1..Len(rows) :
                    rows[k].id = last.args[i].id =>
                        \A c \in Fields : rows[k][c] = last.args[i][c]
        /\ last.err # "none" => rows = last.before

\* C18, amended: update_many sends one update per record, in input order,
\* inside one transaction scope; after a successful call every row whose
\* identifier occurs in the batch holds the fields of the last record of the
\* batch with that identifier, and the other rows are as before; after a
\* failed call the table is as before the call.
C18_UpdateManyLastRecordWins ==
    (last.op = "update_many" /\ Len(last.args) > 0) =>
        /\ last.err = "none" =>
              /\ last.stmts = <<Begin>> \o C18_Updates(last.args) \o <<Commit>>
              /\ Len(rows) = Base
              /\ \A k \in 1..Len(rows) :
                    LET mine == {i \in 1..Len(last.args) :
                                    last.args[i].id = last.before[k].id}
                    IN  /\ rows[k].id = last.before[k].id
                        /\ mine = {} => rows[k] = last.before[k]
                        /\ mine # {} =>
                              \A c \in Fields :
                                  rows[k][c] =
                                      last.args[CHOOSE i \in mine :
                                                   \A j \in mine : j <= i][c]
        /\ last.err # "none" =>
              /\ rows = last.before
              /\ last.stmts[1] = Begin
              /\ last.stmts[Len(last.stmts)] = Rollback

C18_Witness ==
    /\ last.op = "update_many" /\ last.err = "none"
    /\ Len(last.args) = 2
    /\ last.args[1].id = last.args[2].id
    /\ last.args[1] # last.args[2]
    /\ \E k \in 1..Len(rows) :
          /\ rows[k].id = last.args[2].id
          /\ rows[k] # last.before[k]
          /\ rows[k].price = last.args[2].price

C18_WitnessRolledBack ==
    /\ last.op = "update_many" /\ last.err = "DataError"
    /\ Len(last.stmts) = 4
    /\ \E k \in 1..Len(rows) :
          /\ rows[k].id = last.args[1].id
          /\ rows[k].price # last.args[1].price

\* C19: a successful update_values(mapping, filters) sets the mapping's
\* columns on exactly the rows that satisfy every filter; the other rows and
\* the other columns are as before, and so is the number of rows.
C19_UpdateValues ==
    (last.op = "update_values" /\ last.err = "none") =>
        /\ Len(rows) = Base
        /\ \A i \in 1..Len(rows) :
              LET hit == \A k \in 1..Len(last.filters) :
                            last.before[i][last.filters[k].col]
                                = last.filters[k].val
              IN  /\ rows[i].id = last.before[i].id
                  /\ \A c \in Fields :
                        rows[i][c] =
                            IF hit /\ c \in DOMAIN last.values
                            THEN last.values[c] ELSE last.before[i][c]

C19_Witness ==
    /\ last.op = "update_values" /\ last.err = "none"
    /\ last.values = [a |-> 60]
    /\ last.filters = <<[col |-> "price", val |-> 100]>>
    /\ Len(rows) = 3
    /\ \E i \in 1..3 : rows[i] # last.before[i]
    /\ \E i \in 1..3 : rows[i].price = 200 /\ rows[i].a # 60


\* C20: insert_many is all-or-nothing towards backend errors.  When the
\* backend rejects the batch (a value of some record cannot be coerced, or
\* the statement cannot be rendered), no row of the batch is stored: the
\* table, and what get_all() returns, are as before the call.
C20_InsertManyAllOrNothing ==
    (last.op = "insert_many" /\ last.err \in {"DataError", "CompileError"}) =>
        /\ rows = last.before
        /\ IdsOf(rows) = IdsOf(last.before)
        /\ get_all(Db, <<>>) =
              [i \in 1..Len(last.before) |-> deserialize(last.before[i])]

C20_Witness ==
    /\ last.op = "insert_many" /\ last.err = "DataError"
    /\ Len(last.args) = 2
    /\ last.args[1].price = 100
    /\ last.args[2].price = NotAnInt
    /\ last.before # <<>>
    /\ get_all(Db, <<>>) # <<>>


\* C14: every method of DatabasesQueryExecutor (fetch_one, fetch_all,
\* fetch_val, insert, insert_many, update, delete) called with non-empty
\* keyword parameters raises ValueError before anything reaches the
\* connection: no statement is executed and the store is unchanged.
C14_SaParamsRejected ==
    (last.op = "query_executor" /\ DOMAIN last.sa_params # {}) =>
        /\ last.err = "ValueError"
        /\ last.stmts = <<>>
        /\ last.ret = <<>>
        /\ rows = last.before
        /\ id_seq = last.idBefore /\ seq_val = last.seqBefore

C14_Witness ==
    /\ last.op = "query_executor" /\ last.method = "delete"
    /\ DOMAIN last.sa_params # {}
    /\ last.err = "ValueError"
    /\ Len(rows) = 2
    /\ apply_filters(rows, last.query.filters) = rows

C14_WitnessInsert ==
    /\ last.op = "query_executor" /\ last.method = "insert"
    /\ DOMAIN last.sa_params # {}
    /\ last.err = "ValueError"
    /\ id_seq < MaxId

\* C21: the payload that serialize contributes to an INSERT or an UPDATE never
\* names the identifier column, and after update, update_partial and
\* update_many every stored row has the identifier it had before the call, in
\* the same place, so the set of stored identifiers is unchanged.
C21_SerializedOps ==
    {"insert", "update", "update_partial", "update_many",
     "update_or_insert_many_by_field"}

C21_IdentifierNeverWritten ==
    /\ last.op \in C21_SerializedOps =>
          \A k \in 1..Len(last.stmts) :
              LET q == last.stmts[k]
              IN  /\ q.kind \in {"insert", "update"} => "id" \notin DOMAIN q.values
                  /\ q.kind = "insert_many" =>
                        \A j \in 1..Len(q.values) : "id" \notin DOMAIN q.values[j]
    /\ last.op \in {"update", "update_partial", "update_many"} =>
          /\ Len(rows) = Len(last.before)
          /\ \A i \in 1..Len(rows) : rows[i].id = last.before[i].id
          /\ IdsOf(rows) = IdsOf(last.before)

\* An update_partial that changed a row of a table of two rows, and an
\* update_partial naming the identifier that raised KeyError.
C21_Witness ==
    /\ last.op = "update_partial"
    /\ last.err = "none"
    /\ Len(rows) = 2
    /\ rows # last.before
    /\ Len(last.stmts) = 1

C21_WitnessIdNamed ==
    /\ last.op = "update_partial"
    /\ "id" \in DOMAIN last.values
    /\ last.err = "KeyError"
    /\ last.out[1].id = 2
    /\ last.args[1].id = 1
    /\ Len(rows) = 2

C23_WitnessExplicitFirst ==
    /\ last.op = "insert_many" /\ last.err = "none" /\ Len(last.args) = 2
    /\ last.args[1].a = 60 /\ last.args[2].a = 0
    /\ last.out[1].a = 60 /\ last.out[2].a = ColumnDefaultA
    /\ rows[Base + 2].a = ColumnDefaultA

\* C25: insert_many on an empty sequence issues no statement at all (no
\* INSERT, no transaction statement), raises nothing, leaves the table and
\* the sequences as they were and returns an empty sequence.
C25_EmptyInsertManyDoesNothing ==
    (last.op = "insert_many" /\ Len(last.args) = 0) =>
        /\ last.err = "none"
        /\ last.stmts = <<>>
        /\ last.out = <<>>
        /\ last.ret = <<>>
        /\ rows = last.before
        /\ id_seq = last.idBefore /\ seq_val = last.seqBefore

\* An empty insert_many on a table of two rows, inside the caller's scope.
C25_Witness ==
    /\ last.op = "insert_many" /\ Len(last.args) = 0
    /\ Len(rows) = 2
    /\ last.inTx

\* C26: only the first positional filter of delete is tested for the
\* match-all sentinel: delete(None, f) drops f, the DELETE carries no filter
\* and every row of the table is deleted, also the rows f does not match; a
\* None in second place drops nothing from the filters.
C26_LeadingNoneDiscardsOtherFilters ==
    (last.op = "delete" /\ Len(last.filters) = 2) =>
        /\ last.filters[1] = NoneFilter =>
              /\ last.err = "none"
              /\ last.stmts = <<[kind |-> "delete", filters |-> <<>>]>>
              /\ rows = <<>>
        /\ last.filters[1] # NoneFilter =>
              last.stmts = <<[kind |-> "delete", filters |-> last.filters]>>

\* delete(None, a == 60) on a table holding a row with a # 60: the row is gone.
C26_Witness ==
    /\ last.op = "delete"
    /\ last.filters = <<NoneFilter, [col |-> "a", val |-> 60]>>
    /\ \E i \in 1..Len(last.before) : last.before[i].a # 60
    /\ Len(last.before) = 2
    /\ rows = <<>>

\* C27: update_partial sets the new values on the in-memory record before the
\* UPDATE is executed and never restores them: when the backend rejects the
\* UPDATE, the error propagates, the record holds the new values and the
\* table is as it was.
C27_UpdatePartialKeepsValuesOnFailure ==
    (last.op = "update_partial" /\ last.err \notin {"none", "AssertionError"}) =>
        /\ \A f \in DOMAIN last.values : last.out[1][f] = last.values[f]
        /\ \A f \in (DOMAIN last.args[1]) \ DOMAIN last.values :
              last.out[1][f] = last.args[1][f]
        /\ rows = last.before
        /\ last.err = "DataError" =>
              /\ Len(last.stmts) = 1
              /\ last.stmts[1].kind = "update"
              /\ last.stmts[1].values = last.values

\* A record with a = 60 of a stored row: update_partial(a = a value the column
\* cannot hold) fails, the record holds the value, the row does not.
C27_Witness ==
    /\ last.op = "update_partial"
    /\ last.err = "DataError"
    /\ last.args[1].a = 60
    /\ last.out[1].a = NotAnInt
    /\ \E i \in 1..Len(rows) :
          /\ rows[i].id = last.args[1].id
          /\ rows[i].a # NotAnInt

\* C24: when the executor delivers k < n rows for an insert_many of n records,
\* no error is raised: the first k records are paired with the k rows in
\* order and take their identifiers and deferred values, the other n - k
\* records are untouched and keep a null identifier, and the list returned
\* holds exactly the k paired records.
C24_ShortReturnPairsFirstRecords ==
    LET me == callers[Consumer]
    IN  (/\ me.pc = "done"
         /\ me.op = "insert_many"
         /\ Len(me.stmts) = 1
         /\ me.err \notin {"DataError", "CompileError"}
         /\ Len(me.source) < Len(me.args)) =>
            LET k == Len(me.source)
                n == Len(me.args)
            IN  /\ me.err = "none"
                /\ \A i \in 1..k :
                      /\ me.entities[i].id = me.source[i].id
                      /\ me.entities[i].id # None
                      /\ \A f \in Fields :
                            me.entities[i][f] =
                                IF f \in _get_ignored_fields(me.args[i])
                                THEN me.source[i][f] ELSE me.args[i][f]
                /\ \A i \in (k + 1)..n :
                      /\ me.entities[i] = me.args[i]
                      /\ me.entities[i].id = None
                /\ me.out = SubSeq(me.entities, 1, k)
                /\ Len(me.out) = k

\* Two records, one row delivered: the first record has identifier 1, the
\* second none, and the list returned holds the first record only.
C24_Witness ==
    LET me == callers[Consumer]
    IN  /\ me.pc = "done" /\ me.op = "insert_many" /\ me.err = "none"
        /\ Len(me.args) = 2 /\ Len(me.source) = 1
        /\ me.entities[1].id = 1
        /\ me.entities[2].id = None
        /\ me.out = <<me.entities[1]>>
        /\ Len(rows) = 2

\* C29: insert_many_aiter writes back lazily.  While the caller holds the
\* iterator the multi-row INSERT has been executed (the rows are stored), the
\* records the iterator has yielded hold their rows' identifiers and deferred
\* values, and every record not yet yielded is as the caller passed it, with
\* a null identifier.
C29_LazyWriteBack ==
    LET me == callers[Consumer]
    IN  (me.pc = "iterating" /\ Len(me.args) > 0) =>
            /\ Len(me.stmts) = 1
            /\ me.stmts[1].kind = "insert_many"
            /\ Len(rows) = Len(me.before) + Len(me.args)
            /\ \A i \in 1..Len(me.args) :
                  rows[Len(me.before) + i].id = id_seq - Len(me.args) + i
            /\ Len(me.yielded) = me.pos
            /\ \A i \in 1..me.pos :
                  /\ me.entities[i].id = me.source[i].id
                  /\ me.entities[i].id = rows[Len(me.before) + i].id
                  /\ me.yielded[i] = me.entities[i]
                  /\ \A f \in _get_ignored_fields(me.args[i]) :
                        me.entities[i][f] = rows[Len(me.before) + i][f]
            /\ \A i \in (me.pos + 1)..Len(me.args) :
                  /\ me.entities[i] = me.args[i]
                  /\ me.entities[i].id = None

\* insert_many_aiter has returned, two rows are stored and no record has an
\* identifier yet; and the iterator after its first item.
C29_Witness ==
    LET me == callers[Consumer]
    IN  /\ me.pc = "iterating" /\ me.op = "insert_many_aiter"
        /\ Len(me.args) = 2 /\ Len(me.source) = 2
        /\ me.pos = 0
        /\ Len(rows) = 2 /\ rows[1].id = 1 /\ rows[2].id = 2
        /\ me.entities[1].id = None /\ me.entities[2].id = None

C29_WitnessOneYielded ==
    LET me == callers[Consumer]
    IN  /\ me.pc = "iterating" /\ me.op = "insert_many_aiter"
        /\ Len(me.args) = 2 /\ Len(me.source) = 2
        /\ me.pos = 1
        /\ me.entities[1].id = 1 /\ me.entities[2].id = None
        /\ me.yielded = <<me.entities[1]>>

\* The rows holding value v in column field, and whether a lookup result
\* holds it.
C28_RowsWith(field, v) == {i \in 1..Len(rows) : rows[i][field] = v}

C28_Unmatched(me, v) ==
    /\ \E i \in 1..Len(me.args) : me.args[i][me.field] = v
    /\ \A i \in 1..Len(me.found) : me.found[i][me.field] # v

\* C28: update_or_insert_first and update_or_insert_many_by_field look up
\* before they open their transaction scope.  Two cooperative callers that
\* both looked a value up while no row held it both insert: afterwards at
\* least two rows hold the value and each caller's record has an identifier
\* of its own.  Likewise two records of one batch with the same unmatched
\* value are both inserted.
C28_LookupBeforeScopeInsertsTwice ==
    /\ \A c, d \in Callers : \A v \in {100, 200} :
          (/\ c # d
           /\ callers[c].pc = "done" /\ callers[d].pc = "done"
           /\ {callers[c].op, callers[d].op} \subseteq
                 {"update_or_insert_first", "update_or_insert_many_by_field"}
           /\ C28_Unmatched(callers[c], v) /\ C28_Unmatched(callers[d], v)) =>
              /\ callers[c].err = "none" /\ callers[d].err = "none"
              /\ Cardinality(C28_RowsWith(callers[c].field, v)) >= 2
              /\ \A i \in 1..Len(callers[c].out), j \in 1..Len(callers[d].out) :
                    (callers[c].out[i].price = v /\ callers[d].out[j].price = v)
                        => /\ callers[c].out[i].id # callers[d].out[j].id
                           /\ {callers[c].out[i].id, callers[d].out[j].id}
                                 \subseteq IdsOf(rows)
    /\ \A c \in Callers : \A v \in {100, 200} :
          (/\ callers[c].pc = "done"
           /\ callers[c].op = "update_or_insert_many_by_field"
           /\ C28_Unmatched(callers[c], v)
           /\ \E i, j \in 1..Len(callers[c].args) :
                 i # j /\ callers[c].args[i].price = v
                       /\ callers[c].args[j].price = v) =>
              /\ callers[c].err = "none"
              /\ Cardinality(C28_RowsWith("price", v)) >= 2
              /\ \E i, j \in 1..Len(callers[c].out) :
                    /\ i # j
                    /\ callers[c].out[i].price = v /\ callers[c].out[j].price = v
                    /\ callers[c].out[i].id # callers[c].out[j].id
                    /\ {callers[c].out[i].id, callers[c].out[j].id}
                          \subseteq IdsOf(rows)

\* Two callers of update_or_insert_first with price 100 on an empty table:
\* two rows with price 100.
C28_Witness ==
    /\ callers[1].pc = "done" /\ callers[2].pc = "done"
    /\ callers[1].op = "update_or_insert_first"
    /\ callers[2].op = "update_or_insert_first"
    /\ callers[1].args[1].price = 100 /\ callers[2].args[1].price = 100
    /\ callers[1].found = <<>> /\ callers[2].found = <<>>
    /\ Len(rows) = 2
    /\ rows[1].price = 100 /\ rows[2].price = 100

\* Two callers of update_or_insert_many_by_field, and one batch with the
\* value twice.
C28_WitnessMany ==
    /\ callers[1].pc = "done" /\ callers[2].pc = "done"
    /\ callers[1].op = "update_or_insert_many_by_field"
    /\ callers[2].op = "update_or_insert_many_by_field"
    /\ C28_Unmatched(callers[1], 200) /\ C28_Unmatched(callers[2], 200)
    /\ Cardinality(C28_RowsWith("price", 200)) = 2

C28_WitnessBatch ==
    /\ callers[1].pc = "done"
    /\ callers[1].op = "update_or_insert_many_by_field"
    /\ Len(callers[1].args) = 2
    /\ callers[1].args[1].price = 100 /\ callers[1].args[2].price = 100
    /\ callers[1].found = <<>>
    /\ callers[2].pc = "idle"
    /\ Len(rows) = 2
    /\ rows[1].price = 100 /\ rows[2].price = 100

\* C30: in the fake repository, after any sequence of insert, insert_many,
\* delete_by_id and delete_by_ids calls, the identifiers of the held records
\* are pairwise distinct and follow the insertion order, the inserts handed
\* out 1, 2, 3, ... and id_counter is greater than every identifier handed
\* out.
C30_FakeIdentifiers ==
    /\ \A i, j \in 1..Len(fake.entities) :
          i < j => fake.id[fake.entities[i]] < fake.id[fake.entities[j]]
    /\ \A k \in 1..Len(fake.assigned) : fake.assigned[k] = k
    /\ \A k \in 1..Len(fake.assigned) : fake.id_counter > fake.assigned[k]

\* The part of C30 that does not depend on which objects are inserted: the
\* k-th insert hands out k, id_counter is one more than the number of inserts,
\* and no held record has an identifier id_counter has yet to reach.
C30_CounterNeverReused ==
    /\ \A k \in 1..Len(fake.assigned) : fake.assigned[k] = k
    /\ fake.id_counter = Len(fake.assigned) + 1
    /\ \A i \in 1..Len(fake.entities) :
          fake.id[fake.entities[i]] \in 1..(fake.id_counter - 1)

====
